---- MODULE Spec2Model ----
(***************************************************************************)
(* TaskScheduler: the per-task two-channel debouncing state machine        *)
(* (TaskBase::run) and the scheduling engine (Scheduler: registry, timer   *)
(* queue, worker queue, one timer thread, N worker threads).               *)
(***************************************************************************)
EXTENDS Integers, Sequences, FiniteSets, TLC

\* ------------------------------------------------------------------------
\* Bounds of the model
\* ------------------------------------------------------------------------
MaxTol == 2
MaxRep == 2
MaxCycles == 7
MaxCounter == 3
MaxInterval == 2

Tolerances == 0..MaxTol
Repeats == 0..MaxRep
Intervals == 1..MaxInterval

\* ------------------------------------------------------------------------
\* types.h
\* ------------------------------------------------------------------------
TaskConfig ==
  [intervalMs : Intervals,
   sigTolerance : Tolerances, sigRepeat : Repeats, allowSignal : BOOLEAN,
   actTolerance : Tolerances, actRepeat : Repeats, allowAction : BOOLEAN]

PlanResult == [wantSignal : BOOLEAN, wantAct : BOOLEAN]

\* ------------------------------------------------------------------------
\* TaskBase: one channel of the state machine.  The signal and the action
\* channel run the same code on their own counter, state and config fields;
\* Channel(...) is that code, with the callback calls it makes returned in
\* `calls` (the sequence of arguments passed to signal()/act()).
\* ------------------------------------------------------------------------
\* the counter not reset by a false intent.
CountIntentNoReset(want, counter) == IF want THEN counter + 1 ELSE counter

CountIntent(want, counter) == IF want THEN counter + 1 ELSE 0

\* conditionMet with > for >=.
ConditionMetStrict(counter, tolerance) == counter > tolerance

ConditionMet(counter, tolerance) == counter >= tolerance

\* the withdrawal condition without the gate.
WithdrawalIgnoresGate(want, gateOpen, isOn) == ~want /\ isOn

\* the withdrawal condition without the test of the state.
WithdrawalWhenOff(want, gateOpen, isOn) == ~want \/ ~gateOpen

Withdrawal(want, gateOpen, isOn) == (~want \/ ~gateOpen) /\ isOn

\* the activation condition without the gate.
ActivationIgnoresGate(conditionMet, gateOpen, isOn) == conditionMet /\ ~isOn

Activation(conditionMet, gateOpen, isOn) == conditionMet /\ gateOpen /\ ~isOn

Heartbeat(conditionMet, gateOpen, isOn) == conditionMet /\ gateOpen /\ isOn

\* the heartbeat branch without the test sigRepeat > 0.
HeartbeatDueNoRepeatCheck(counter, tolerance, repeat) ==
  (counter - tolerance) >= repeat

HeartbeatDue(counter, tolerance, repeat) ==
  repeat > 0 /\ (counter - tolerance) >= repeat

\* a withdrawal that keeps the counter.
WithdrawCounterKept(counter) == counter

WithdrawCounter(counter) == 0

SnapBack(counter, tolerance) == tolerance

Channel(tolerance, repeat, allow, want, counter, isOn) ==
  LET c == CountIntent(want, counter)
      conditionMet == ConditionMet(c, tolerance)
      gateOpen == allow
  IN  IF Withdrawal(want, gateOpen, isOn)
        THEN [counter |-> WithdrawCounter(c), isOn |-> FALSE, calls |-> <<FALSE>>]
      ELSE IF Activation(conditionMet, gateOpen, isOn)
        THEN [counter |-> c, isOn |-> TRUE, calls |-> <<TRUE>>]
      ELSE IF Heartbeat(conditionMet, gateOpen, isOn)
              /\ HeartbeatDue(c, tolerance, repeat)
        THEN [counter |-> SnapBack(c, tolerance), isOn |-> TRUE, calls |-> <<TRUE>>]
      ELSE [counter |-> c, isOn |-> isOn, calls |-> <<>>]

\* the signal channel gated by both allow flags.
processSignalChannelBothGates(cfg, wantSignal, t) ==
  Channel(cfg.sigTolerance, cfg.sigRepeat, cfg.allowSignal /\ cfg.allowAction,
          wantSignal, t.sigCounter, t.isSignaled)

processSignalChannel(cfg, wantSignal, t) ==
  Channel(cfg.sigTolerance, cfg.sigRepeat, cfg.allowSignal, wantSignal,
          t.sigCounter, t.isSignaled)

\* the action channel reading config_ of the task, not the snapshot.
processActionChannelLive(cfg, wantAct, t) ==
  Channel(t.config.actTolerance, t.config.actRepeat, t.config.allowAction,
          wantAct, t.actCounter, t.isActing)

processActionChannel(cfg, wantAct, t) ==
  Channel(cfg.actTolerance, cfg.actRepeat, cfg.allowAction, wantAct,
          t.actCounter, t.isActing)

\* The task object after the constructor.
NewTask(cfg) ==
  [active |-> TRUE, config |-> cfg,
   sigCounter |-> 0, isSignaled |-> FALSE,
   actCounter |-> 0, isActing |-> FALSE]

\* Steps 2-4 of run(): the state machine applied to the snapshot cfg and
\* the intent returned by plan().
RunChannels(t, cfg, intent) ==
  LET s == processSignalChannel(cfg, intent.wantSignal, t)
      a == processActionChannel(cfg, intent.wantAct, t)
  IN  [task |-> [t EXCEPT !.sigCounter = s.counter, !.isSignaled = s.isOn,
                          !.actCounter = a.counter, !.isActing = a.isOn],
       planned |-> TRUE, sigCalls |-> s.calls, actCalls |-> a.calls]

\* run() without the early exit of line 23.
RunTaskNoActiveCheck(t, intent) == RunChannels(t, t.config, intent)

\* run() as a whole: the early exit on an inactive task, else the snapshot
\* of the configuration and the state machine.
RunTask(t, intent) ==
  IF ~t.active
    THEN [task |-> t, planned |-> FALSE, sigCalls |-> <<>>, actCalls |-> <<>>]
    ELSE RunChannels(t, t.config, intent)

\* ------------------------------------------------------------------------
\* State
\* ------------------------------------------------------------------------
VARIABLES
  tasks,        \* task objects: instance id -> TaskBase fields
  registry,     \* Scheduler::registry_ : name -> instance id
  timerQueue,   \* Scheduler::timerQueue_ : entries in deadline order, time left
  workerQueue,  \* Scheduler::workerQueue_ : FIFO of instance ids
  running,      \* Scheduler::running_
  timer,        \* the timer thread: position and locals
  workers,      \* the worker threads: position and locals
  mock,         \* MockTask of test_state_machine.cpp: call counters, last cycle
  obs,          \* what the scheduler's tasks have been seen to do
  sd,           \* the threads calling shutdown(): caller -> position
  upd,          \* the threads inside updateTask(): caller -> position, argument
  mgr,          \* ConfigManager: currentConfigs_, the calls of its last sync
  locks,        \* the mutexes' owners, each thread's pending lock operations
  api           \* the call of the public interface that returned in the last step

vars == <<tasks, registry, timerQueue, workerQueue, running, timer,
          workers, mock, obs, sd, upd, mgr, locks, api>>

schedVars == <<registry, timerQueue, workerQueue, running, timer, workers, obs,
               sd, upd, mgr, locks, api>>

\* ------------------------------------------------------------------------
\* Per-channel accessors: the two channels use the same code on their own
\* fields ("sig": sigTolerance/sigRepeat/allowSignal/sigCounter/isSignaled,
\* "act": actTolerance/actRepeat/allowAction/actCounter/isActing).
\* ------------------------------------------------------------------------
Channels == {"sig", "act"}

ChTol(cfg, ch) == IF ch = "sig" THEN cfg.sigTolerance ELSE cfg.actTolerance
ChRep(cfg, ch) == IF ch = "sig" THEN cfg.sigRepeat ELSE cfg.actRepeat
ChAllow(cfg, ch) == IF ch = "sig" THEN cfg.allowSignal ELSE cfg.allowAction
ChCounter(t, ch) == IF ch = "sig" THEN t.sigCounter ELSE t.actCounter
ChOn(t, ch) == IF ch = "sig" THEN t.isSignaled ELSE t.isActing
ChWant(intent, ch) == IF ch = "sig" THEN intent.wantSignal ELSE intent.wantAct
ChCalls(r, ch) == IF ch = "sig" THEN r.sigCalls ELSE r.actCalls

\* ------------------------------------------------------------------------
\* MockTask (tests/test_state_machine.cpp): the task under test records the
\* callbacks it receives.  The log follows one channel (mock.watch).
\* ------------------------------------------------------------------------
Sat(n, cap) == IF n > cap THEN cap ELSE n

NewMock(ch) ==
  [watch |-> ch,
   op |-> "new",            \* the last call made on the task
   held |-> 0,              \* k: k cycles so far, each with the constructor's
                            \*    configuration and a true intent; -1: otherwise
   activations |-> 0,       \* calls cb(true), counted up to 2
   deactivations |-> 0,     \* calls cb(false), counted up to 2
   streak |-> 0,            \* consecutive true intents up to now, up to MaxTol
   sinceWd |-> 0,           \* the same, counted after the last withdrawal cycle
   gateWd |-> FALSE,        \* withdrawn with the gate closed, not reactivated yet
   reactivated |-> FALSE,   \* the last cycle activated after such a withdrawal
   gateEverOpen |-> FALSE,  \* some cycle snapshotted the gate open
   lastWant |-> FALSE,      \* the intent of the last cycle
   lastCalls |-> <<>>]      \* the callback calls of the last cycle

LogCycle(m, want, allow, wasOn, calls) ==
  LET withdrawn == calls = <<FALSE>>
      activated == calls = <<TRUE>> /\ ~wasOn
  IN  [m EXCEPT
        !.op = "run",
        !.held = IF @ >= 0 /\ want THEN @ + 1 ELSE -1,
        !.activations = Sat(@ + (IF calls = <<TRUE>> THEN 1 ELSE 0), 2),
        !.deactivations = Sat(@ + (IF withdrawn THEN 1 ELSE 0), 2),
        !.streak = IF want THEN Sat(@ + 1, MaxTol) ELSE 0,
        !.sinceWd = IF withdrawn \/ ~want THEN 0 ELSE Sat(@ + 1, MaxTol),
        !.gateWd = IF withdrawn THEN ~allow ELSE (@ /\ ~activated),
        !.reactivated = m.gateWd /\ activated,
        !.gateEverOpen = @ \/ allow,
        !.lastWant = want,
        !.lastCalls = calls]

\* ------------------------------------------------------------------------
\* The state machine driven directly, as the unit tests do: one task object,
\* run() / updateConfig() / setActive() called from one thread.  The tests
\* reconfigure the channel they look at and leave the other channel as
\* constructed; the intents of both channels are free.
\* ------------------------------------------------------------------------
T0 == 1

OtherChannel(ch) == IF ch = "sig" THEN "act" ELSE "sig"

\* The configurations the channel that is not watched is constructed with.
OtherConfigs ==
  {[tolerance |-> 0, repeat |-> 0, allow |-> TRUE],
   [tolerance |-> 1, repeat |-> 1, allow |-> TRUE]}

ChannelConfigs == [tolerance : Tolerances, repeat : Repeats, allow : BOOLEAN]

\* cfg with the fields of channel ch replaced.
WithChannel(cfg, ch, c) ==
  IF ch = "sig"
    THEN [cfg EXCEPT !.sigTolerance = c.tolerance, !.sigRepeat = c.repeat,
                     !.allowSignal = c.allow]
    ELSE [cfg EXCEPT !.actTolerance = c.tolerance, !.actRepeat = c.repeat,
                     !.allowAction = c.allow]

BlankConfig(i) ==
  [intervalMs |-> i,
   sigTolerance |-> 0, sigRepeat |-> 0, allowSignal |-> TRUE,
   actTolerance |-> 0, actRepeat |-> 0, allowAction |-> TRUE]

InitSM ==
  /\ \E ch \in Channels, i \in {MaxInterval}, c \in ChannelConfigs, o \in OtherConfigs :
       /\ tasks = (T0 :> NewTask(WithChannel(WithChannel(BlankConfig(i), ch, c),
                                             OtherChannel(ch), o)))
       /\ mock = NewMock(ch)
  /\ registry = <<>>
  /\ timerQueue = <<>>
  /\ workerQueue = <<>>
  /\ running = FALSE
  /\ timer = [pc |-> "none", task |-> 0]
  /\ workers = <<>>
  /\ obs = <<>>
  /\ sd = <<>>
  /\ upd = <<>>
  /\ mgr = <<>>
  /\ locks = <<>>
  /\ api = <<>>

\* The runs explored: counters stay below MaxCounter, except in the run that
\* holds the watched intent true under the constructor's configuration, which
\* is followed for MaxCycles cycles.
Explored(t, intent) ==
  \A ch \in Channels :
    ChWant(intent, ch) =>
      IF ch = mock.watch /\ mock.held >= 0 THEN mock.held < MaxCycles
      ELSE ChCounter(t, ch) < MaxCounter

\* task->run() with plan() returning intent.
Run(intent) ==
  /\ Explored(tasks[T0], intent)
  /\ LET t == tasks[T0]
         ch == mock.watch
         r == RunTask(t, intent)
     IN  /\ tasks' = [tasks EXCEPT ![T0] = r.task]
         /\ mock' = IF r.planned
              THEN LogCycle(mock, ChWant(intent, ch), ChAllow(t.config, ch),
                            ChOn(t, ch), ChCalls(r, ch))
              ELSE [mock EXCEPT !.op = "skip"]
  /\ UNCHANGED schedVars

\* task->updateConfig(...): all fields are written under configMutex_.
updateConfig(t, cfg) == [t EXCEPT !.config = cfg]

UpdateConfig(c) ==
  LET cfg == WithChannel(tasks[T0].config, mock.watch, c)
  IN  /\ tasks' = [tasks EXCEPT ![T0] = updateConfig(@, cfg)]
      /\ mock' = [mock EXCEPT !.op = "updateConfig",
                              !.held = IF cfg = tasks[T0].config THEN @ ELSE -1]
      /\ UNCHANGED schedVars

\* task->setActive(b)
setActive(t, b) == [t EXCEPT !.active = b]

SetActive(b) ==
  /\ tasks' = [tasks EXCEPT ![T0] = setActive(@, b)]
  /\ mock' = [mock EXCEPT !.op = "setActive"]
  /\ UNCHANGED schedVars

NextSM ==
  \/ \E intent \in PlanResult : Run(intent)
  \/ \E c \in ChannelConfigs : UpdateConfig(c)
  \/ \E b \in BOOLEAN : SetActive(b)

SpecSM == InitSM /\ [][NextSM]_vars

\* ------------------------------------------------------------------------
\* Two runs of the state machine side by side: two task objects of the same
\* class, driven cycle by cycle as above.  The runs agree on one channel
\* (mock.watch): its configuration fields and its intent are the same in
\* both; the fields and the intents of the other channel are chosen for each
\* run on its own.  mock.calls holds, for each run, the callback calls the
\* agreed channel made in the last cycle.
\* ------------------------------------------------------------------------
Twins == {1, 2}

\* The configurations of the channel the runs agree on.
TwinAgreedConfigs ==
  OtherConfigs \cup {[tolerance |-> 1, repeat |-> 0, allow |-> FALSE],
                     [tolerance |-> MaxTol, repeat |-> MaxRep, allow |-> TRUE]}

\* The configurations of the channel the runs do not agree on.
TwinOtherConfigs ==
  OtherConfigs \cup {[tolerance |-> 1, repeat |-> 0, allow |-> FALSE]}

TwinConfig(ch, c, o) ==
  WithChannel(WithChannel(BlankConfig(MaxInterval), ch, c), OtherChannel(ch), o)

\* The result of plan(): `want` on channel ch, `other` on the other one.
TwinIntent(ch, want, other) ==
  IF ch = "sig" THEN [wantSignal |-> want, wantAct |-> other]
  ELSE [wantSignal |-> other, wantAct |-> want]

InitTwin ==
  /\ \E ch \in Channels, c \in TwinAgreedConfigs,
        o \in [Twins -> TwinOtherConfigs] :
       /\ tasks = [r \in Twins |-> NewTask(TwinConfig(ch, c, o[r]))]
       /\ mock = [watch |-> ch, calls |-> [r \in Twins |-> <<>>]]
  /\ registry = <<>>
  /\ timerQueue = <<>>
  /\ workerQueue = <<>>
  /\ running = FALSE
  /\ timer = [pc |-> "none", task |-> 0]
  /\ workers = <<>>
  /\ obs = <<>>
  /\ sd = <<>>
  /\ upd = <<>>
  /\ mgr = <<>>
  /\ locks = <<>>
  /\ api = <<>>

\* One cycle of both runs: task->run() with plan() returning `want` on the
\* agreed channel and other[r] on the other channel of run r.
TwinRun(want, other) ==
  LET ch == mock.watch
      intent == [r \in Twins |-> TwinIntent(ch, want, other[r])]
      res == [r \in Twins |-> RunTask(tasks[r], intent[r])]
  IN  /\ \A r \in Twins, k \in Channels :
            ChWant(intent[r], k) => ChCounter(tasks[r], k) < MaxCounter
      /\ tasks' = [r \in Twins |-> res[r].task]
      /\ mock' = [mock EXCEPT !.calls = [r \in Twins |-> ChCalls(res[r], ch)]]
      /\ UNCHANGED schedVars

\* task->updateConfig(...) on both runs: c on the agreed channel, other[r] on
\* the other channel of run r.
TwinUpdateConfig(c, other) ==
  /\ tasks' = [r \in Twins |->
                 updateConfig(tasks[r], TwinConfig(mock.watch, c, other[r]))]
  /\ UNCHANGED <<mock, schedVars>>

NextTwin ==
  \/ \E want \in BOOLEAN, other \in [Twins -> BOOLEAN] : TwinRun(want, other)
  \/ \E c \in TwinAgreedConfigs, other \in [Twins -> TwinOtherConfigs] :
       TwinUpdateConfig(c, other)

SpecTwin == InitTwin /\ [][NextTwin]_vars

\* ------------------------------------------------------------------------
\* Scheduler (src/src/core/scheduler.cpp, class Scheduler)
\*
\* Time.  A deadline is kept as the time left until it: an entry pushed with
\* nextRunTime = now + interval has `due` = interval, a tick of the clock
\* takes one off every positive `due`, and nextRunTime <= now is due = 0.
\* timerQueue is the heap's content in deadline order (the order in which
\* top()/pop() deliver it), so entries that are overdue keep their order.
\* ------------------------------------------------------------------------
NumWorkers == 2
MaxInst == 1

Workers == 1..NumWorkers
Names == {"a", "b"}
NoTask == 0

\* The configurations createTask's factories and updateTask use here: any
\* interval, both channels with tolerance 1 and repeat 1, gates open.
SchedConfigs ==
  {WithChannel(WithChannel(BlankConfig(i), "sig", c), "act", c) :
     i \in Intervals, c \in {[tolerance |-> 1, repeat |-> 1, allow |-> TRUE]}}

\* SensorTask::plan / ActuatorTask::plan: both intents are the same reading.
SensorPlans == {[wantSignal |-> b, wantAct |-> b] : b \in BOOLEAN}

ScheduleEntry(due, task) == [due |-> due, task |-> task]

\* timerQueue_.top(): the entry with the least nextRunTime
Top(q) == Head(q)

\* timerQueue_.pop() leaving the entry in the queue.
PopKeepsEntry(q) == q

\* timerQueue_.pop()
Pop(q) == Tail(q)

\* timerQueue_.push(entry) that puts the entry on top whatever its deadline.
PushFront(q, e) == {<<e>> \o q}

\* timerQueue_.push(entry): the queues that can result.  The entry goes
\* behind every earlier deadline and before every later one; where it lands
\* among equal deadlines is up to the heap.
Push(q, e) ==
  {SubSeq(q, 1, k) \o <<e>> \o SubSeq(q, k + 1, Len(q)) :
     k \in {j \in 0..Len(q) :
              /\ \A i \in 1..j : q[i].due <= e.due
              /\ \A i \in (j + 1)..Len(q) : q[i].due >= e.due}}

\* setActive(false) forgotten by stopTask.
StopKeepsActive(t) == t

\* stopTask's effect on the task object: it->second->setActive(false)
StopMark(t) == setActive(t, FALSE)

\* TaskConfig cfg; of run() while it holds no snapshot, and the argument
\* of a call that is not under way: a value that is never read.
NoConfig == BlankConfig(0)

\* The timer thread's locals: `task`, the shared_ptr copied from a popped
\* entry; `towards`, the task of the entry the reference `entry` was bound
\* to (timerQueue_.top()) when the thread went into wait_for; `stale`, a
\* push has since moved the storage of the heap's vector, so that `entry`
\* dangles.
IdleTimer(pc) == [pc |-> pc, task |-> NoTask, towards |-> NoTask, stale |-> FALSE]
IdleWorker(pc) == [pc |-> pc, task |-> NoTask, cfg |-> NoConfig]

\* The threads that call shutdown(): two users of the scheduler, the second
\* one being, for instance, the destructor.
Callers == {"c1", "c2"}

\* A thread's position in updateTask(name, config): outside ("idle"), or
\* holding registryMutex_ and configMutex_ of the task found, with the
\* first `done` fields of config_ assigned from cfg.
IdleUpdate == [pc |-> "idle", name |-> "", cfg |-> NoConfig, done |-> 0]

\* The record of a call of the public interface at its return: createTask,
\* stopTask, updateTask: ok is the bool returned; getTask: val is the task
\* returned (NoTask for nullptr), ok says it is not null; getTaskCount: val
\* is the count; shutdown: name is the caller.  NoCall after any other step.
Returned(op, name, ok, val) == [op |-> op, name |-> name, ok |-> ok, val |-> val]
NoCall == Returned("none", "", FALSE, NoTask)

\* What has been seen of the task objects after stopTask returned true for
\* them: the number of cycles that called plan() after that return (counted
\* up to 2) and whether a cycle passed run()'s active check after it.  And,
\* for each name, the createTask calls that returned true less the stopTask
\* calls that returned true (counted up to 2).  And, for each task object,
\* the arguments of the updateTask calls that were followed assignment by
\* assignment into its config_ (written), and the configuration given to it
\* last by its constructor or by an updateTask call that has returned
\* (landed).  And the greatest length the timer queue has had (peak).  And,
\* for each task object, the time left until now + getInterval() as they
\* were when scheduleTask was last called for it (wait).
NewObs ==
  [lateCycles |-> <<>>, lateStart |-> <<>>, net |-> [n \in Names |-> 0],
   written |-> <<>>, landed |-> <<>>, peak |-> 0, wait |-> <<>>]

\* ConfigManager::ConfigManager(scheduler, ...): no configuration applied
\* yet.  calls: the calls the last syncTasks() made on the scheduler, each
\* with its name and what it returned.
NewManager == [currentConfigs |-> <<>>, calls |-> {}]

\* The mutexes of a scheduler with one task: registryMutex_, timerMutex_,
\* workerMutex_ and the task's configMutex_.
Mutexes == {"registry", "timer", "worker", "config"}

\* The threads that take them: two callers of the public interface, the
\* timer thread and a worker.
LockThreads == {"caller1", "caller2", "timer", "worker"}
NoThread == "none"

\* No mutex owned, no thread inside a locked region: owner is the thread
\* that has locked each mutex, todo the lock operations each thread has
\* still to do before it is back at the head of its loop or has returned
\* from its call.
NewLocks ==
  [owner |-> [m \in Mutexes |-> NoThread],
   todo |-> [th \in LockThreads |-> <<>>]]

\* The task objects stopTask has returned true for: made by createTask and
\* no longer in the registry.
Stopped == {id \in DOMAIN tasks : \A n \in DOMAIN registry : registry[n] # id}

\* Scheduler::Scheduler(numWorkers), the workers being ws
Construct(ws) ==
  /\ tasks = <<>>
  /\ registry = <<>>
  /\ timerQueue = <<>>
  /\ workerQueue = <<>>
  /\ running = TRUE
  /\ timer = IdleTimer("t_top")
  /\ workers = [w \in ws |-> IdleWorker("w_wait")]
  /\ mock = NewMock("sig")
  /\ obs = NewObs
  /\ sd = [c \in Callers |-> "idle"]
  /\ upd = [c \in Callers |-> IdleUpdate]
  /\ mgr = NewManager
  /\ locks = NewLocks
  /\ api = NoCall

Init == Construct(Workers)

\* ---- mutexes and condition variables ----
\* timerMutex_ is held across steps only by the timer thread, from the
\* evaluation of a wait predicate that came out false to the moment the
\* wait releases the mutex and blocks; workerMutex_ likewise by a worker.
TimerMutexHeld == timer.pc \in {"t_block", "t_sleep"}
WorkerMutexHeld == \E w \in DOMAIN workers : workers[w].pc = "w_block"

\* timerQueue_.push() seen from the timer thread asleep in wait_for: its
\* `entry` refers to the first element of the heap's vector.  A push into a
\* vector that is as long as it has ever been may move the storage, and
\* `entry` dangles from then on; any other push leaves the storage where it
\* is.  q is the queue before the push, peak the greatest length it has had.
Pushed(tm, q, peak) ==
  IF tm.pc = "t_sleeping" /\ Len(q) >= peak
    THEN [tm EXCEPT !.stale = TRUE] ELSE tm

\* The greatest length the timer queue has had, after a push into q.
Peak(q, peak) == IF Len(q) + 1 > peak THEN Len(q) + 1 ELSE peak

\* timerCV_.notify_one / notify_all: the timer thread is the only waiter;
\* the timer records that can result.  Out of wait() it evaluates the
\* predicate again.  In wait_for() it evaluates
\*   !running_ || top().nextRunTime < entry.nextRunTime
\* and returns to the head of the loop if that is true, else sleeps on
\* towards the deadline it went to sleep with.  `entry` is the first element
\* of the vector, which is what top() returns, so the comparison is false;
\* read through a dangling `entry` it is anything.  A thread that is not
\* blocked does not see the notification.
NotifyTimer(tm) ==
  IF tm.pc = "t_blocked" THEN {[tm EXCEPT !.pc = "t_woken"]}
  ELSE IF tm.pc = "t_sleeping"
    THEN IF ~running THEN {IdleTimer("t_top")}
         ELSE IF tm.stale THEN {tm, IdleTimer("t_top")}
         ELSE {tm}
  ELSE {tm}

\* registryMutex_ is held by a thread inside updateTask()
RegistryMutexHeld == \E c \in DOMAIN upd : upd[c].pc # "idle"

\* configMutex_ of a task taken as never held.
ConfigMutexNeverHeld(id) == FALSE

\* configMutex_ of the task is held by a thread inside its updateConfig()
ConfigMutexHeld(id) ==
  \E c \in DOMAIN upd : upd[c].pc = "u_write" /\ registry[upd[c].name] = id

Blocked(ws) == {w \in DOMAIN ws : ws[w].pc = "w_blocked"}

\* workerCV_.notify_one(): one of the blocked workers, if there is one
NotifyOne(ws) ==
  IF Blocked(ws) = {} THEN {ws}
  ELSE {[ws EXCEPT ![w].pc = "w_lock"] : w \in Blocked(ws)}

\* workerCV_.notify_all() that reaches nobody.
NotifyAllLost(ws) == ws

\* workerCV_.notify_all(): every blocked worker
NotifyAll(ws) ==
  [w \in DOMAIN ws |-> IF w \in Blocked(ws) THEN [ws[w] EXCEPT !.pc = "w_lock"] ELSE ws[w]]

\* ---- the public interface ----
\* registry_.find(name) != registry_.end() taken as never true.
NameNeverTaken(reg, name) == FALSE

\* registry_.find(name) != registry_.end()
NameTaken(reg, name) == name \in DOMAIN reg

\* registry_.find(name) as a pointer: the task, or none
Find(reg, name) == IF NameTaken(reg, name) THEN reg[name] ELSE NoTask

\* registry_.erase(it) that erases nothing.
EraseNothing(reg, name) == reg

\* registry_.erase(it)
Erase(reg, name) == [n \in DOMAIN reg \ {name} |-> reg[n]]

\* registry_[name] = task that stores nothing.
InsertNothing(reg, name, id) == reg

\* registry_[name] = task
Insert(reg, name, id) == (name :> id) @@ reg

\* scheduleTask(task) with nextRun = now + 1, whatever getInterval() says.
scheduleTaskShortest(q, t, id) == Push(q, ScheduleEntry(1, id))

\* scheduleTask(task): nextRun = now + getInterval(), pushed under timerMutex_
scheduleTask(q, t, id) == Push(q, ScheduleEntry(t.config.intervalMs, id))

\* createTask(name, factory) returning true, the factory making a new task
\* object with cfg.  registry_[name] = task; scheduleTask(task) pushes and
\* notifies timerCV_.
CreateTask(name, cfg) ==
  /\ ~RegistryMutexHeld
  /\ ~NameTaken(registry, name)
  /\ ~TimerMutexHeld
  /\ LET id == Len(tasks) + 1
         t == NewTask(cfg)
     IN  /\ tasks' = Append(tasks, t)
         /\ registry' = Insert(registry, name, id)
         /\ timerQueue' \in scheduleTask(timerQueue, t, id)
         /\ obs' = [obs EXCEPT !.lateCycles = Append(@, 0),
                               !.lateStart = Append(@, FALSE),
                               !.net[name] = Sat(@ + 1, 2),
                               !.written = Append(@, {}),
                               !.landed = Append(@, cfg),
                               !.peak = Peak(timerQueue, obs.peak),
                               !.wait = Append(@, t.config.intervalMs)]
         /\ api' = Returned("createTask", name, TRUE, id)
  /\ timer' \in NotifyTimer(Pushed(timer, timerQueue, obs.peak))
  /\ UNCHANGED <<workerQueue, running, workers, mock, sd, upd, mgr, locks>>

\* createTask(name, factory) returning false: the name is registered (the
\* factory is not called), or the factory returns null (made = FALSE).
CreateTaskFails(name, made) ==
  /\ ~RegistryMutexHeld
  /\ NameTaken(registry, name) \/ ~made
  /\ api' = Returned("createTask", name, FALSE, NoTask)
  /\ UNCHANGED <<tasks, registry, timerQueue, workerQueue, running, timer,
                 workers, mock, obs, sd, upd, mgr, locks>>

\* stopTask(name) returning true
StopTask(name) ==
  /\ ~RegistryMutexHeld
  /\ NameTaken(registry, name)
  /\ tasks' = [tasks EXCEPT ![registry[name]] = StopMark(@)]
  /\ registry' = Erase(registry, name)
  /\ obs' = [obs EXCEPT !.net[name] = @ - 1]
  /\ api' = Returned("stopTask", name, TRUE, NoTask)
  /\ UNCHANGED <<timerQueue, workerQueue, running, timer, workers, mock, sd, upd, mgr, locks>>

\* stopTask(name) returning false: the name is not registered
StopTaskFails(name) ==
  /\ ~RegistryMutexHeld
  /\ ~NameTaken(registry, name)
  /\ api' = Returned("stopTask", name, FALSE, NoTask)
  /\ UNCHANGED <<tasks, registry, timerQueue, workerQueue, running, timer,
                 workers, mock, obs, sd, upd, mgr, locks>>

\* updateTask(name, config) giving the configuration to every task.
UpdateTaskEvery(name, cfg) ==
  /\ ~RegistryMutexHeld
  /\ NameTaken(registry, name)
  /\ tasks' = [id \in DOMAIN tasks |-> updateConfig(tasks[id], cfg)]
  /\ obs' = [obs EXCEPT !.landed = [id \in DOMAIN tasks |-> cfg]]
  /\ api' = Returned("updateTask", name, TRUE, NoTask)
  /\ UNCHANGED <<registry, timerQueue, workerQueue, running, timer,
                 workers, mock, sd, upd, mgr, locks>>

\* updateTask(name, config) returning true (both overloads end here).
UpdateTask(name, cfg) ==
  /\ ~RegistryMutexHeld
  /\ NameTaken(registry, name)
  /\ tasks' = [tasks EXCEPT ![registry[name]] = updateConfig(@, cfg)]
  /\ obs' = [obs EXCEPT !.landed[registry[name]] = cfg]
  /\ api' = Returned("updateTask", name, TRUE, NoTask)
  /\ UNCHANGED <<registry, timerQueue, workerQueue, running, timer,
                 workers, mock, sd, upd, mgr, locks>>

\* updateTask(name, config) returning false: the name is not registered
UpdateTaskFails(name) ==
  /\ ~RegistryMutexHeld
  /\ ~NameTaken(registry, name)
  /\ api' = Returned("updateTask", name, FALSE, NoTask)
  /\ UNCHANGED <<tasks, registry, timerQueue, workerQueue, running, timer,
                 workers, mock, obs, sd, upd, mgr, locks>>

\* getTask(name) written with registry_[name], which adds a missing name.
GetTaskInserting(name) ==
  /\ ~RegistryMutexHeld
  /\ api' = Returned("getTask", name, NameTaken(registry, name), Find(registry, name))
  /\ registry' = IF NameTaken(registry, name) THEN registry
                 ELSE Insert(registry, name, NoTask)
  /\ UNCHANGED <<tasks, timerQueue, workerQueue, running, timer,
                 workers, mock, obs, sd, upd, mgr, locks>>

\* getTask(name): the registered task, or nullptr
GetTask(name) ==
  /\ ~RegistryMutexHeld
  /\ api' = Returned("getTask", name, NameTaken(registry, name), Find(registry, name))
  /\ UNCHANGED <<tasks, registry, timerQueue, workerQueue, running, timer,
                 workers, mock, obs, sd, upd, mgr, locks>>

\* getTaskCount(): registry_.size()
GetTaskCount ==
  /\ ~RegistryMutexHeld
  /\ api' = Returned("getTaskCount", "", TRUE, Cardinality(DOMAIN registry))
  /\ UNCHANGED <<tasks, registry, timerQueue, workerQueue, running, timer,
                 workers, mock, obs, sd, upd, mgr, locks>>

\* steady_clock advancing by one unit
Elapse(d) == IF d > 0 THEN d - 1 ELSE 0

Tick ==
  /\ timerQueue' = [i \in DOMAIN timerQueue |->
                      [timerQueue[i] EXCEPT !.due = Elapse(@)]]
  /\ obs' = [obs EXCEPT !.wait = [i \in DOMAIN @ |-> Elapse(@[i])]]
  /\ UNCHANGED <<tasks, registry, workerQueue, running, timer, workers, mock, sd, upd, mgr, locks>>
  /\ api' = NoCall

\* ---- timer thread ----
\* One pass of the loop that pops: running_ is set, the queue is not empty
\* (else the thread waits on timerCV_) and the top entry is due (else the
\* thread sleeps in wait_for and looks again); the entry is popped under
\* timerMutex_ and its task kept in the local `task`.
TimerPop ==
  /\ timer.pc = "t_top"
  /\ running
  /\ timerQueue # <<>>
  /\ Top(timerQueue).due = 0
  /\ timer' = [IdleTimer("t_check") EXCEPT !.task = Top(timerQueue).task]
  /\ timerQueue' = Pop(timerQueue)
  /\ UNCHANGED <<tasks, registry, workerQueue, running, workers, mock, obs, sd, upd, mgr, locks>>
  /\ api' = NoCall

\* after the pop: workerQueue_.push(task) without looking at isActive().
TimerDispatchUnchecked ==
  /\ timer.pc = "t_check"
  /\ ~WorkerMutexHeld
  /\ workerQueue' = Append(workerQueue, timer.task)
  /\ workers' \in NotifyOne(workers)
  /\ timer' = IdleTimer("t_top")
  /\ UNCHANGED <<tasks, registry, timerQueue, running, mock, obs, sd, upd, mgr, locks>>
  /\ api' = NoCall

\* after the pop: if (task->isActive()) workerQueue_.push(task); else drop
TimerDispatch ==
  /\ timer.pc = "t_check"
  /\ ~WorkerMutexHeld
  /\ IF tasks[timer.task].active
       THEN /\ workerQueue' = Append(workerQueue, timer.task)
            /\ workers' \in NotifyOne(workers)
       ELSE UNCHANGED <<workerQueue, workers>>
  /\ timer' = IdleTimer("t_top")
  /\ UNCHANGED <<tasks, registry, timerQueue, running, mock, obs, sd, upd, mgr, locks>>
  /\ api' = NoCall

\* ---- worker threads ----
\* One pass of the loop up to the pop: running_ is set, workerCV_.wait has
\* returned on a non-empty queue, and the front is taken under workerMutex_.
WorkerTake(w) ==
  /\ workers[w].pc = "w_wait"
  /\ running
  /\ workerQueue # <<>>
  /\ workers' = [workers EXCEPT ![w] =
                   [pc |-> "w_check", task |-> Head(workerQueue), cfg |-> NoConfig]]
  /\ workerQueue' = Tail(workerQueue)
  /\ UNCHANGED <<tasks, registry, timerQueue, running, timer, mock, obs, sd, upd, mgr, locks>>
  /\ api' = NoCall

\* the worker calling task->run() without looking at isActive().
WorkerCheckSkipped(w) ==
  /\ workers[w].pc = "w_check"
  /\ workers' = [workers EXCEPT ![w].pc = "w_run"]
  /\ UNCHANGED <<tasks, registry, timerQueue, workerQueue, running,
                 timer, mock, obs, sd, upd, mgr, locks>>
  /\ api' = NoCall

\* if (task->isActive()) run it, else drop it
WorkerCheck(w) ==
  /\ workers[w].pc = "w_check"
  /\ workers' = [workers EXCEPT ![w] =
                   IF tasks[workers[w].task].active
                     THEN [@ EXCEPT !.pc = "w_run"] ELSE IdleWorker("w_wait")]
  /\ UNCHANGED <<tasks, registry, timerQueue, workerQueue, running,
                 timer, mock, obs, sd, upd, mgr, locks>>
  /\ api' = NoCall

\* task->run() entered: the early exit on an inactive task, else the
\* snapshot of config_ under configMutex_
WorkerRunEnter(w) ==
  /\ workers[w].pc = "w_run"
  /\ LET id == workers[w].task
     IN  IF ~tasks[id].active
           THEN /\ workers' = [workers EXCEPT ![w].pc = "w_after"]
                /\ obs' = obs
           ELSE /\ ~ConfigMutexHeld(id)
                /\ workers' = [workers EXCEPT ![w].pc = "w_exec",
                                              ![w].cfg = tasks[id].config]
                /\ obs' = [obs EXCEPT !.lateStart[id] = @ \/ id \in Stopped]
  /\ UNCHANGED <<tasks, registry, timerQueue, workerQueue, running,
                 timer, mock, sd, upd, mgr, locks>>
  /\ api' = NoCall

\* the rest of run(): plan() and the two channels on the snapshot
WorkerExec(w, intent) ==
  /\ workers[w].pc = "w_exec"
  /\ LET id == workers[w].task
     IN  /\ tasks' = [tasks EXCEPT ![id] = RunChannels(@, workers[w].cfg, intent).task]
         /\ obs' = [obs EXCEPT !.lateCycles[id] =
                       IF id \in Stopped THEN Sat(@ + 1, 2) ELSE @]
  /\ workers' = [workers EXCEPT ![w].pc = "w_after", ![w].cfg = NoConfig]
  /\ UNCHANGED <<registry, timerQueue, workerQueue, running, timer, mock, sd, upd, mgr, locks>>
  /\ api' = NoCall

\* if (task->isActive()) rescheduleTask(task), else drop it
WorkerAfter(w) ==
  /\ workers[w].pc = "w_after"
  /\ workers' = [workers EXCEPT ![w] =
                   IF tasks[workers[w].task].active
                     THEN [@ EXCEPT !.pc = "w_resched"] ELSE IdleWorker("w_wait")]
  /\ UNCHANGED <<tasks, registry, timerQueue, workerQueue, running,
                 timer, mock, obs, sd, upd, mgr, locks>>
  /\ api' = NoCall

\* rescheduleTask(task) -> scheduleTask(task)
WorkerReschedule(w) ==
  /\ workers[w].pc = "w_resched"
  /\ ~TimerMutexHeld
  /\ ~ConfigMutexHeld(workers[w].task)
  /\ timerQueue' \in scheduleTask(timerQueue, tasks[workers[w].task], workers[w].task)
  /\ timer' \in NotifyTimer(Pushed(timer, timerQueue, obs.peak))
  /\ obs' = [obs EXCEPT !.peak = Peak(timerQueue, obs.peak),
                        !.wait[workers[w].task] = tasks[workers[w].task].config.intervalMs]
  /\ workers' = [workers EXCEPT ![w] = IdleWorker("w_wait")]
  /\ UNCHANGED <<tasks, registry, workerQueue, running, mock, sd, upd, mgr, locks>>
  /\ api' = NoCall

Next ==
  \/ \E name \in Names, cfg \in SchedConfigs :
       Len(tasks) < MaxInst /\ CreateTask(name, cfg)
  \/ \E name \in Names : StopTask(name)
  \/ \E name \in Names, cfg \in SchedConfigs : UpdateTask(name, cfg)
  \/ Tick
  \/ TimerPop
  \/ TimerDispatch
  \/ \E w \in Workers : WorkerTake(w)
  \/ \E w \in Workers : WorkerCheck(w)
  \/ \E w \in Workers : WorkerRunEnter(w)
  \/ \E w \in Workers, intent \in SensorPlans : WorkerExec(w, intent)
  \/ \E w \in Workers : WorkerAfter(w)
  \/ \E w \in Workers : WorkerReschedule(w)

Spec == Init /\ [][Next]_vars

\* ------------------------------------------------------------------------
\* The public interface with its failing calls and its queries, called at
\* any moment while the clock and the timer thread run.  No worker takes
\* what the timer dispatches here, so that a stopped task keeps its entry in
\* one of the queues.
\* ------------------------------------------------------------------------
MaxApiInst == 2

\* The configurations used here: the shortest and the longest interval.
ApiConfigs == {cfg \in SchedConfigs : cfg.intervalMs \in {1, MaxInterval}}

NextApi ==
  \/ \E name \in Names, cfg \in ApiConfigs :
       Len(tasks) < MaxApiInst /\ CreateTask(name, cfg)
  \/ \E name \in Names, made \in BOOLEAN : CreateTaskFails(name, made)
  \/ \E name \in Names : StopTask(name)
  \/ \E name \in Names : StopTaskFails(name)
  \/ \E name \in Names, cfg \in ApiConfigs : UpdateTask(name, cfg)
  \/ \E name \in Names : UpdateTaskFails(name)
  \/ \E name \in Names : GetTask(name)
  \/ GetTaskCount
  \/ Tick
  \/ TimerPop
  \/ TimerDispatch

SpecApi == Init /\ [][NextApi]_vars

\* ------------------------------------------------------------------------
\* Shutdown, with the threads' loops taken step by step: the load of
\* running_ at the head of a loop, the evaluation of a wait predicate under
\* the mutex, and the wait releasing the mutex and blocking are separate
\* steps, since shutdown() stores to running_ and notifies without holding
\* either mutex (scheduler.cpp:24-30).
\* ------------------------------------------------------------------------
\* timerThreadFunc: while (running_.load())
TimerLoopHead ==
  /\ timer.pc = "t_top"
  /\ timer' = IdleTimer(IF running THEN "t_lock" ELSE "t_done")
  /\ api' = NoCall
  /\ UNCHANGED <<tasks, registry, timerQueue, workerQueue, running, workers,
                 mock, obs, sd, upd, mgr, locks>>

\* Lines 148-175 on a non-empty queue: the top entry is popped when due;
\* else wait_for evaluates its predicate, which at this point is
\* !running_ (the top is `entry` itself), and returns at once or goes on to
\* block with the mutex still held.
TimerExamine ==
  IF Top(timerQueue).due = 0
    THEN /\ timer' = [IdleTimer("t_check") EXCEPT !.task = Top(timerQueue).task]
         /\ timerQueue' = Pop(timerQueue)
    ELSE /\ timer' = IF running
                       THEN [IdleTimer("t_sleep") EXCEPT
                               !.towards = Top(timerQueue).task]
                       ELSE IdleTimer("t_top")
         /\ timerQueue' = timerQueue

\* Lines 134-145 coming from the head of the loop: on an empty queue
\* wait() evaluates !empty || !running_; true means running_ is false and
\* line 142 breaks; false goes on to block.
TimerAcquire ==
  /\ timer.pc = "t_lock"
  /\ IF timerQueue = <<>>
       THEN /\ timer' = IdleTimer(IF running THEN "t_block" ELSE "t_done")
            /\ timerQueue' = timerQueue
       ELSE TimerExamine
  /\ api' = NoCall
  /\ UNCHANGED <<tasks, registry, workerQueue, running, workers, mock, obs, sd, upd, mgr, locks>>

\* wait() woken: the predicate again, then line 142
TimerRewait ==
  /\ timer.pc = "t_woken"
  /\ IF timerQueue = <<>> /\ running
       THEN timer' = IdleTimer("t_block") /\ timerQueue' = timerQueue
     ELSE IF ~running
       THEN timer' = IdleTimer("t_done") /\ timerQueue' = timerQueue
     ELSE TimerExamine
  /\ api' = NoCall
  /\ UNCHANGED <<tasks, registry, workerQueue, running, workers, mock, obs, sd, upd, mgr, locks>>

\* wait() / wait_for() releasing timerMutex_ and blocking
TimerBlock ==
  /\ timer.pc \in {"t_block", "t_sleep"}
  /\ timer' = [timer EXCEPT !.pc = IF @ = "t_block" THEN "t_blocked" ELSE "t_sleeping"]
  /\ api' = NoCall
  /\ UNCHANGED <<tasks, registry, timerQueue, workerQueue, running, workers,
                 mock, obs, sd, upd, mgr, locks>>

\* The time left of the sleep: sleepTime was entry.nextRunTime - now when
\* wait_for was called, and the entry slept towards is still in the queue.
SleepLeft(tm, q) ==
  (CHOOSE e \in {q[i] : i \in DOMAIN q} : e.task = tm.towards).due

\* wait_for() timing out: sleepTime has passed
TimerTimeout ==
  /\ timer.pc = "t_sleeping"
  /\ SleepLeft(timer, timerQueue) = 0
  /\ timer' = IdleTimer("t_top")
  /\ api' = NoCall
  /\ UNCHANGED <<tasks, registry, timerQueue, workerQueue, running, workers,
                 mock, obs, sd, upd, mgr, locks>>

\* workerThreadFunc: while (running_.load())
WorkerLoopHead(w) ==
  /\ workers[w].pc = "w_wait"
  /\ workers' = [workers EXCEPT ![w] = IdleWorker(IF running THEN "w_lock" ELSE "w_done")]
  /\ api' = NoCall
  /\ UNCHANGED <<tasks, registry, timerQueue, workerQueue, running, timer,
                 mock, obs, sd, upd, mgr, locks>>

\* Lines 184-199, first time or woken: under workerMutex_ the predicate
\* !empty || !running_; false goes on to block; true with an empty queue is
\* the break of line 191-193; else the front is popped.
WorkerAcquire(w) ==
  /\ workers[w].pc = "w_lock"
  /\ ~WorkerMutexHeld
  /\ IF workerQueue = <<>>
       THEN /\ workers' = [workers EXCEPT ![w] =
                             IdleWorker(IF running THEN "w_block" ELSE "w_done")]
            /\ workerQueue' = workerQueue
       ELSE /\ workers' = [workers EXCEPT ![w] =
                             [pc |-> "w_check", task |-> Head(workerQueue),
                              cfg |-> NoConfig]]
            /\ workerQueue' = Tail(workerQueue)
  /\ api' = NoCall
  /\ UNCHANGED <<tasks, registry, timerQueue, running, timer, mock, obs, sd, upd, mgr, locks>>

\* wait() releasing workerMutex_ and blocking
WorkerBlock(w) ==
  /\ workers[w].pc = "w_block"
  /\ workers' = [workers EXCEPT ![w].pc = "w_blocked"]
  /\ api' = NoCall
  /\ UNCHANGED <<tasks, registry, timerQueue, workerQueue, running, timer,
                 mock, obs, sd, upd, mgr, locks>>

\* ---- shutdown() ----
TimerExited == timer.pc = "t_done"
WorkersExited == \A w \in DOMAIN workers : workers[w].pc = "w_done"

\* running_.exchange(false) taken as always having found running_ set.
ExchangeFoundSet(r) == TRUE

\* running_.exchange(false): the value found
Exchange(r) == r

\* if (!running_.exchange(false)) return;
ShutdownBegin(c) ==
  /\ sd[c] \in {"idle", "returned"}
  /\ running' = FALSE
  /\ IF Exchange(running)
       THEN sd' = [sd EXCEPT ![c] = "notify_timer"] /\ api' = NoCall
       ELSE sd' = [sd EXCEPT ![c] = "returned"]
            /\ api' = Returned("shutdown", c, TRUE, NoTask)
  /\ UNCHANGED <<tasks, registry, timerQueue, workerQueue, timer, workers,
                 mock, obs, upd, mgr, locks>>

\* timerCV_.notify_all()
ShutdownNotifyTimer(c) ==
  /\ sd[c] = "notify_timer"
  /\ timer' \in NotifyTimer(timer)
  /\ sd' = [sd EXCEPT ![c] = "notify_workers"]
  /\ api' = NoCall
  /\ UNCHANGED <<tasks, registry, timerQueue, workerQueue, running, workers,
                 mock, obs, upd, mgr, locks>>

\* workerCV_.notify_all()
ShutdownNotifyWorkers(c) ==
  /\ sd[c] = "notify_workers"
  /\ workers' = NotifyAll(workers)
  /\ sd' = [sd EXCEPT ![c] = "join"]
  /\ api' = NoCall
  /\ UNCHANGED <<tasks, registry, timerQueue, workerQueue, running, timer,
                 mock, obs, upd, mgr, locks>>

\* timerThread_.join() and the joins of workerThreads_ completing, and the
\* return of shutdown()
ShutdownJoin(c) ==
  /\ sd[c] = "join"
  /\ TimerExited /\ WorkersExited
  /\ sd' = [sd EXCEPT ![c] = "returned"]
  /\ api' = Returned("shutdown", c, TRUE, NoTask)
  /\ UNCHANGED <<tasks, registry, timerQueue, workerQueue, running, timer,
                 workers, mock, obs, upd, mgr, locks>>

\* The scheduler shut down here has NumShutdownWorkers workers and tasks of
\* the shortest interval under one name, whose plan() asks for both
\* channels.  Its users create a task at any moment; once a shutdown() has
\* returned they also stop it, look it up and count.
NumShutdownWorkers == 1
ShutdownWorkers == 1..NumShutdownWorkers
ShutdownNames == {"a"}
ShutdownConfigs == {cfg \in SchedConfigs : cfg.intervalMs = 1}
ShutdownPlans == {p \in SensorPlans : p.wantSignal}

InitShutdown == Construct(ShutdownWorkers)

SomeReturned == \E c \in Callers : sd[c] = "returned"

NextShutdown ==
  \/ \E name \in ShutdownNames, cfg \in ShutdownConfigs :
       Len(tasks) < MaxInst /\ CreateTask(name, cfg)
  \/ \E name \in ShutdownNames : SomeReturned /\ StopTask(name)
  \/ \E name \in ShutdownNames, cfg \in ShutdownConfigs :
       SomeReturned /\ UpdateTask(name, cfg)
  \/ \E name \in ShutdownNames : SomeReturned /\ GetTask(name)
  \/ SomeReturned /\ GetTaskCount
  \/ Tick
  \/ TimerLoopHead
  \/ TimerAcquire
  \/ TimerRewait
  \/ TimerBlock
  \/ TimerTimeout
  \/ TimerDispatch
  \/ \E w \in ShutdownWorkers : WorkerLoopHead(w)
  \/ \E w \in ShutdownWorkers : WorkerAcquire(w)
  \/ \E w \in ShutdownWorkers : WorkerBlock(w)
  \/ \E w \in ShutdownWorkers : WorkerCheck(w)
  \/ \E w \in ShutdownWorkers : WorkerRunEnter(w)
  \/ \E w \in ShutdownWorkers, intent \in ShutdownPlans : WorkerExec(w, intent)
  \/ \E w \in ShutdownWorkers : WorkerAfter(w)
  \/ \E w \in ShutdownWorkers : WorkerReschedule(w)
  \/ \E c \in Callers : ShutdownBegin(c)
  \/ \E c \in Callers : ShutdownNotifyTimer(c)
  \/ \E c \in Callers : ShutdownNotifyWorkers(c)
  \/ \E c \in Callers : ShutdownJoin(c)

SpecShutdown == InitShutdown /\ [][NextShutdown]_vars

\* ------------------------------------------------------------------------
\* Callbacks that throw.  run() has no try block (task_base.cpp:21-44) and
\* neither has workerThreadFunc around task->run() (scheduler.cpp:201-213):
\* an exception thrown by plan(), signal() or act() leaves the thread's
\* function, for which std::thread calls std::terminate: the process ends
\* there, with every thread.
\* ------------------------------------------------------------------------
ThrowSites == {"plan", "signal", "act"}

\* The call at which a cycle with this intent can throw is made
Calls(t, cfg, intent, site) ==
  CASE site = "plan" -> TRUE
    [] site = "signal" -> processSignalChannel(cfg, intent.wantSignal, t).calls # <<>>
    [] site = "act" -> processActionChannel(cfg, intent.wantAct, t).calls # <<>>

\* The task object as the exception leaves run(): a channel whose callback
\* throws has counted the intent and not yet assigned its state; what comes
\* after the throwing call is not executed.
ThrownAt(t, cfg, intent, site) ==
  LET s == processSignalChannel(cfg, intent.wantSignal, t)
  IN  CASE site = "plan" -> t
        [] site = "signal" ->
             [t EXCEPT !.sigCounter = CountIntent(intent.wantSignal, @)]
        [] site = "act" ->
             [t EXCEPT !.sigCounter = s.counter, !.isSignaled = s.isOn,
                       !.actCounter = CountIntent(intent.wantAct, @)]

\* std::terminate has been called
Terminated == \E w \in DOMAIN workers : workers[w].pc = "w_terminate"

\* the rest of run() with a callback that throws
WorkerThrow(w, intent, site) ==
  /\ workers[w].pc = "w_exec"
  /\ LET id == workers[w].task
     IN  /\ Calls(tasks[id], workers[w].cfg, intent, site)
         /\ tasks' = [tasks EXCEPT ![id] = ThrownAt(@, workers[w].cfg, intent, site)]
         /\ obs' = [obs EXCEPT !.lateCycles[id] =
                       IF id \in Stopped THEN Sat(@ + 1, 2) ELSE @]
  /\ workers' = [workers EXCEPT ![w].pc = "w_terminate", ![w].cfg = NoConfig]
  /\ api' = NoCall
  /\ UNCHANGED <<registry, timerQueue, workerQueue, running, timer, mock, sd, upd, mgr, locks>>

NextThrow ==
  \/ ~Terminated /\ Next
  \/ \E w \in Workers, intent \in SensorPlans, site \in ThrowSites :
       ~Terminated /\ WorkerThrow(w, intent, site)

SpecThrow == Init /\ [][NextThrow]_vars

\* ------------------------------------------------------------------------
\* A caller using the task object itself.  getTask(name) hands out the
\* shared_ptr of the registered task, and setActive is a public member of
\* TaskBase (task_base.h), so a caller can flip active_ of a registered
\* task without going through the scheduler, as
\* LazyDeletionTest.TaskInactiveCheckInRun does.
\* ------------------------------------------------------------------------
\* scheduler->getTask(name)->setActive(b)
CallerSetActive(name, b) ==
  /\ NameTaken(registry, name)
  /\ tasks' = [tasks EXCEPT ![Find(registry, name)] = setActive(@, b)]
  /\ api' = NoCall
  /\ UNCHANGED <<registry, timerQueue, workerQueue, running, timer, workers,
                 mock, obs, sd, upd, mgr, locks>>

NextCaller ==
  \/ Next
  \/ GetTaskCount
  \/ \E name \in Names, b \in BOOLEAN : CallerSetActive(name, b)

SpecCaller == Init /\ [][NextCaller]_vars

\* ------------------------------------------------------------------------
\* updateTask() taken assignment by assignment, against the cycles of the
\* task.  updateTask(name, config) locks registryMutex_, finds the task and
\* calls updateConfig, which assigns config_ under configMutex_
\* (task_base.cpp:134-154); run() copies config_ under the same mutex
\* (task_base.cpp:30-34) and getInterval() reads it under it.  The overload
\* with seven arguments builds a TaskConfig and calls the other one
\* (scheduler.cpp:62-80).
\* ------------------------------------------------------------------------
\* The fields of TaskConfig in the order of their declaration
ConfigFields ==
  <<"intervalMs", "sigTolerance", "sigRepeat", "allowSignal",
    "actTolerance", "actRepeat", "allowAction">>

\* registryMutex_ locked, the name found, configMutex_ of the task locked
UpdateLock(c, name, cfg) ==
  /\ upd[c].pc = "idle"
  /\ ~RegistryMutexHeld
  /\ NameTaken(registry, name)
  /\ upd' = [upd EXCEPT ![c] = [pc |-> "u_write", name |-> name, cfg |-> cfg,
                                done |-> 0]]
  /\ obs' = [obs EXCEPT !.written[registry[name]] = @ \cup {cfg}]
  /\ api' = NoCall
  /\ UNCHANGED <<tasks, registry, timerQueue, workerQueue, running, timer,
                 workers, mock, sd, mgr, locks>>

\* the assignment of the next field of config_
UpdateAssign(c) ==
  /\ upd[c].pc = "u_write"
  /\ upd[c].done < Len(ConfigFields)
  /\ LET f == ConfigFields[upd[c].done + 1]
     IN  tasks' = [tasks EXCEPT ![registry[upd[c].name]].config[f] = upd[c].cfg[f]]
  /\ upd' = [upd EXCEPT ![c].done = @ + 1]
  /\ api' = NoCall
  /\ UNCHANGED <<registry, timerQueue, workerQueue, running, timer, workers,
                 mock, obs, sd, mgr, locks>>

\* both mutexes released, updateTask returns true
UpdateReturn(c) ==
  /\ upd[c].pc = "u_write"
  /\ upd[c].done = Len(ConfigFields)
  /\ upd' = [upd EXCEPT ![c] = IdleUpdate]
  /\ obs' = [obs EXCEPT !.landed[registry[upd[c].name]] = upd[c].cfg]
  /\ api' = Returned("updateTask", upd[c].name, TRUE, NoTask)
  /\ UNCHANGED <<tasks, registry, timerQueue, workerQueue, running, timer,
                 workers, mock, sd, mgr, locks>>

\* The scheduler updated here has NumUpdateWorkers workers and one name,
\* which is created once and not stopped.
\* The factory makes the task with the configuration UpdateInitial, and the
\* updateTask calls of two threads give it one of UpdateConfigs; the three
\* differ from one another in several fields.  All have open gates and a
\* heartbeat, under which the counters of a channel stay bounded.
NumUpdateWorkers == 1

UpdateWorkers == 1..NumUpdateWorkers
UpdateNames == {"a"}

UpdateInitial ==
  [intervalMs |-> 1,
   sigTolerance |-> 1, sigRepeat |-> 1, allowSignal |-> TRUE,
   actTolerance |-> 1, actRepeat |-> 1, allowAction |-> TRUE]

UpdateConfigs ==
  {[intervalMs |-> 2,
    sigTolerance |-> 2, sigRepeat |-> 1, allowSignal |-> TRUE,
    actTolerance |-> 2, actRepeat |-> 1, allowAction |-> TRUE],
   [intervalMs |-> 1,
    sigTolerance |-> 0, sigRepeat |-> 2, allowSignal |-> TRUE,
    actTolerance |-> 0, actRepeat |-> 2, allowAction |-> TRUE]}

InitUpdate == Construct(UpdateWorkers)

NextUpdate ==
  \/ \E name \in UpdateNames : CreateTask(name, UpdateInitial)
  \/ \E c \in Callers, name \in UpdateNames, cfg \in UpdateConfigs :
       UpdateLock(c, name, cfg)
  \/ \E c \in Callers : UpdateAssign(c)
  \/ \E c \in Callers : UpdateReturn(c)
  \/ Tick
  \/ TimerPop
  \/ TimerDispatch
  \/ \E w \in UpdateWorkers : WorkerTake(w)
  \/ \E w \in UpdateWorkers : WorkerCheck(w)
  \/ \E w \in UpdateWorkers : WorkerRunEnter(w)
  \/ \E w \in UpdateWorkers, intent \in SensorPlans : WorkerExec(w, intent)
  \/ \E w \in UpdateWorkers : WorkerAfter(w)
  \/ \E w \in UpdateWorkers : WorkerReschedule(w)

SpecUpdate == InitUpdate /\ [][NextUpdate]_vars

\* ------------------------------------------------------------------------
\* Lazy deletion with several task objects: one name is stopped and created
\* again while the stopped objects still have their entry in a queue or are
\* in the hands of a thread (LazyDeletionTest.StopAndRecreate).
\* ------------------------------------------------------------------------
NumLazyWorkers == 1
MaxLazyInst == 2

LazyWorkers == 1..NumLazyWorkers
LazyNames == {"a"}

\* SensorTask(name, 100) of the test: one interval, here the shortest
LazyConfigs == {cfg \in SchedConfigs : cfg.intervalMs = 1}

InitLazy == Construct(LazyWorkers)

NextLazy ==
  \/ \E name \in LazyNames, cfg \in LazyConfigs :
       Len(tasks) < MaxLazyInst /\ CreateTask(name, cfg)
  \/ \E name \in LazyNames : StopTask(name)
  \/ Tick
  \/ TimerPop
  \/ TimerDispatch
  \/ \E w \in LazyWorkers : WorkerTake(w)
  \/ \E w \in LazyWorkers : WorkerCheck(w)
  \/ \E w \in LazyWorkers : WorkerRunEnter(w)
  \/ \E w \in LazyWorkers, intent \in SensorPlans : WorkerExec(w, intent)
  \/ \E w \in LazyWorkers : WorkerAfter(w)
  \/ \E w \in LazyWorkers : WorkerReschedule(w)

SpecLazy == InitLazy /\ [][NextLazy]_vars

\* ------------------------------------------------------------------------
\* Two names side by side (LazyDeletionTest.MultipleTasksPartialDeletion):
\* each is created, updated and stopped on its own while the tasks cycle.
\* A name is created as long as no task has been stopped, so that there is
\* one task object for each name.
\* ------------------------------------------------------------------------
NumPairWorkers == 1

PairWorkers == 1..NumPairWorkers

InitPair == Construct(PairWorkers)

NextPair ==
  \/ \E name \in Names, cfg \in ApiConfigs :
       Stopped = {} /\ CreateTask(name, cfg)
  \/ \E name \in Names : StopTask(name)
  \/ \E name \in Names, cfg \in ApiConfigs : UpdateTask(name, cfg)
  \/ Tick
  \/ TimerPop
  \/ TimerDispatch
  \/ \E w \in PairWorkers : WorkerTake(w)
  \/ \E w \in PairWorkers : WorkerCheck(w)
  \/ \E w \in PairWorkers : WorkerRunEnter(w)
  \/ \E w \in PairWorkers, intent \in SensorPlans : WorkerExec(w, intent)
  \/ \E w \in PairWorkers : WorkerAfter(w)
  \/ \E w \in PairWorkers : WorkerReschedule(w)

SpecPair == InitPair /\ [][NextPair]_vars


\* ------------------------------------------------------------------------
\* The two names with the threads' loops taken step by step, as under
\* shutdown, in a scheduler that is not shut down: a thread that blocks in
\* a wait goes on when it is notified, and the timer's wait_for also when
\* its deadline has come.
\* ------------------------------------------------------------------------
\* Scheduler(1) of EdgeCaseTest.SingleWorkerThread
LoopWorkers == {1}

InitLoops == Construct(LoopWorkers)

NextLoops ==
  \/ \E name \in Names, cfg \in ApiConfigs :
       Stopped = {} /\ CreateTask(name, cfg)
  \/ \E name \in Names : StopTask(name)
  \/ Tick
  \/ TimerLoopHead
  \/ TimerAcquire
  \/ TimerRewait
  \/ TimerBlock
  \/ TimerTimeout
  \/ TimerDispatch
  \/ \E w \in LoopWorkers : WorkerLoopHead(w)
  \/ \E w \in LoopWorkers : WorkerAcquire(w)
  \/ \E w \in LoopWorkers : WorkerBlock(w)
  \/ \E w \in LoopWorkers : WorkerCheck(w)
  \/ \E w \in LoopWorkers : WorkerRunEnter(w)
  \/ \E w \in LoopWorkers, intent \in SensorPlans : WorkerExec(w, intent)
  \/ \E w \in LoopWorkers : WorkerAfter(w)
  \/ \E w \in LoopWorkers : WorkerReschedule(w)

SpecLoops == InitLoops /\ [][NextLoops]_vars

\* The threads of a scheduler that is not shut down keep running: the clock
\* advances, the timer thread's loop and each worker's loop go on whenever
\* they have something to do (a wait_for ends at its deadline at the latest,
\* a push notifies under the queue's mutex), and plan(), signal() and act()
\* return.  The users' calls come or do not come.
LoopsFairness ==
  /\ WF_vars(Tick)
  /\ WF_vars(TimerLoopHead)
  /\ WF_vars(TimerAcquire)
  /\ WF_vars(TimerRewait)
  /\ WF_vars(TimerBlock)
  /\ WF_vars(TimerTimeout)
  /\ WF_vars(TimerDispatch)
  /\ \A w \in LoopWorkers :
       /\ WF_vars(WorkerLoopHead(w))
       /\ WF_vars(WorkerAcquire(w))
       /\ WF_vars(WorkerBlock(w))
       /\ WF_vars(WorkerCheck(w))
       /\ WF_vars(WorkerRunEnter(w))
       /\ WF_vars(\E intent \in SensorPlans : WorkerExec(w, intent))
       /\ WF_vars(WorkerAfter(w))
       /\ WF_vars(WorkerReschedule(w))

SpecLoopsFair == InitLoops /\ [][NextLoops]_vars /\ LoopsFairness

\* ------------------------------------------------------------------------
\* ConfigManager (config_manager.cpp): the only caller of its scheduler.
\* start() and applyPendingChanges() hand what ConfigParser::parse() returned
\* to syncTasks(): a list that is not empty, each entry with a name, a type
\* validateConfig() accepted and a configuration; a name may come twice.
\* ------------------------------------------------------------------------
\* Scheduler(2) of ConfigManagerTest
MgrWorkers == {1, 2}

TaskTypes == {"SensorTask", "ActuatorTask"}

ExtendedTaskConfig(name, type, cfg) ==
  [taskName |-> name, taskType |-> type, config |-> cfg]

\* The entries of the configuration files read here: task "a" of either
\* type with either configuration, task "b" always the same.
MgrEntries ==
  {ExtendedTaskConfig("a", ty, c) : ty \in TaskTypes, c \in ApiConfigs}
    \cup {ExtendedTaskConfig("b", "SensorTask", c) :
            c \in {d \in ApiConfigs : d.intervalMs = 1}}

\* The lists parse() returns here: one entry or two.
ParsedConfigs ==
  {<<e>> : e \in MgrEntries} \cup {<<e, f>> : e, f \in MgrEntries}

\* oldConfigMap / newConfigMap: map[config.config.taskName] = config for
\* every entry in turn, so the last entry of a name stays.
ConfigMap(configs) ==
  [n \in {configs[i].taskName : i \in DOMAIN configs} |->
     configs[CHOOSE i \in DOMAIN configs :
               /\ configs[i].taskName = n
               /\ \A j \in DOMAIN configs : configs[j].taskName = n => j <= i]]

\* The orders in which a loop over an unordered_map may visit the keys S.
Orders(S) ==
  {o \in [1..Cardinality(S) -> S] : \A n \in S : \E i \in DOMAIN o : o[i] = n}

\* The scheduler as syncTasks() sees and changes it, and the calls made.
MgrView ==
  [tasks |-> tasks, registry |-> registry, timerQueue |-> timerQueue,
   timer |-> timer, obs |-> obs, calls |-> {}]

\* scheduler_.createTask(name, [task]() { return task; }) with the task
\* TaskFactory::create() made
createTaskCall(s, name, cfg) ==
  IF NameTaken(s.registry, name)
    THEN {[s EXCEPT !.calls = @ \cup {<<"createTask", name, FALSE>>}]}
    ELSE LET id == Len(s.tasks) + 1
             t == NewTask(cfg)
         IN  {[s EXCEPT !.tasks = Append(@, t),
                        !.registry = Insert(@, name, id),
                        !.timerQueue = q,
                        !.timer = tm,
                        !.obs = [@ EXCEPT !.lateCycles = Append(@, 0),
                                          !.lateStart = Append(@, FALSE),
                                          !.net[name] = Sat(@ + 1, 2),
                                          !.written = Append(@, {}),
                                          !.landed = Append(@, cfg),
                                          !.peak = Peak(s.timerQueue, @),
                                          !.wait = Append(@, t.config.intervalMs)],
                        !.calls = @ \cup {<<"createTask", name, TRUE>>}] :
                q \in scheduleTask(s.timerQueue, t, id),
                tm \in NotifyTimer(Pushed(s.timer, s.timerQueue, s.obs.peak))}

\* scheduler_.updateTask(name, newConfig.config.intervalMs, ...)
updateTaskCall(s, name, cfg) ==
  IF ~NameTaken(s.registry, name)
    THEN {[s EXCEPT !.calls = @ \cup {<<"updateTask", name, FALSE>>}]}
    ELSE {[s EXCEPT !.tasks[s.registry[name]] = updateConfig(@, cfg),
                    !.obs.landed[s.registry[name]] = cfg,
                    !.calls = @ \cup {<<"updateTask", name, TRUE>>}]}

\* scheduler_.stopTask(name)
stopTaskCall(s, name) ==
  IF ~NameTaken(s.registry, name)
    THEN {[s EXCEPT !.calls = @ \cup {<<"stopTask", name, FALSE>>}]}
    ELSE {[s EXCEPT !.tasks[s.registry[name]] = StopMark(@),
                    !.registry = Erase(@, name),
                    !.obs.net[name] = @ - 1,
                    !.calls = @ \cup {<<"stopTask", name, TRUE>>}]}

\* it->second != newConfig: operator== compares the name, the seven
\* configuration fields and the type
ConfigChanged(oldConfig, newConfig) == oldConfig # newConfig

\* The body of the first loop for one name of newConfigMap: add, update or
\* leave alone.
AddOrUpdate(s, name, old, new) ==
  IF name \notin DOMAIN old
    THEN createTaskCall(s, name, new[name].config)
  ELSE IF ConfigChanged(old[name], new[name])
    THEN updateTaskCall(s, name, new[name].config)
  ELSE {s}

\* the second loop removing nothing.
RemoveAbsentSkipped(s, name, new) == {s}

\* The body of the second loop for one name of oldConfigMap.
RemoveAbsent(s, name, new) ==
  IF name \notin DOMAIN new THEN stopTaskCall(s, name) ELSE {s}

RECURSIVE ProcessNew(_, _, _, _)
ProcessNew(ss, order, old, new) ==
  IF order = <<>> THEN ss
  ELSE ProcessNew(UNION {AddOrUpdate(s, Head(order), old, new) : s \in ss},
                  Tail(order), old, new)

RECURSIVE ProcessRemoved(_, _, _)
ProcessRemoved(ss, order, new) ==
  IF order = <<>> THEN ss
  ELSE ProcessRemoved(UNION {RemoveAbsent(s, Head(order), new) : s \in ss},
                      Tail(order), new)

\* The names the first loop creates a task for.
Added(old, new) == DOMAIN new \ DOMAIN old

\* syncTasks(newConfigs), under the manager's configMutex_: the two maps,
\* the loop over newConfigMap, the loop over oldConfigMap, and
\* currentConfigs_ = newConfigs.  Tasks are added here as long as none has
\* been removed.
SyncTasks(newConfigs) ==
  /\ ~RegistryMutexHeld
  /\ ~TimerMutexHeld
  /\ LET old == ConfigMap(mgr.currentConfigs)
         new == ConfigMap(newConfigs)
     IN  /\ Added(old, new) = {} \/ Stopped = {}
         /\ \E o1 \in Orders(DOMAIN new), o2 \in Orders(DOMAIN old) :
              \E s \in ProcessRemoved(ProcessNew({MgrView}, o1, old, new), o2, new) :
                /\ tasks' = s.tasks
                /\ registry' = s.registry
                /\ timerQueue' = s.timerQueue
                /\ timer' = s.timer
                /\ obs' = s.obs
                /\ mgr' = [currentConfigs |-> newConfigs, calls |-> s.calls]
  /\ api' = Returned("syncTasks", "", TRUE, NoTask)
  /\ UNCHANGED <<workerQueue, running, workers, mock, sd, upd, locks>>

InitMgr == Construct(MgrWorkers)

\* The manager's syncs while the clock and the timer thread run.  No worker
\* takes what the timer dispatches here.
NextMgr ==
  \/ \E newConfigs \in ParsedConfigs : SyncTasks(newConfigs)
  \/ Tick
  \/ TimerPop
  \/ TimerDispatch

SpecMgr == InitMgr /\ [][NextMgr]_vars

\* ------------------------------------------------------------------------
\* Properties of the state machine (checked under SpecSM)
\* ------------------------------------------------------------------------
W == mock.watch

\* The configuration, the fields of the watched channel.  run() snapshots
\* config_ in the step that executes the cycle, so the snapshot of a cycle
\* step is the configuration before (and after) that step.
Tol == ChTol(tasks[T0].config, W)
Rep == ChRep(tasks[T0].config, W)
Allow == ChAllow(tasks[T0].config, W)
IsOn == ChOn(tasks[T0], W)
Counter == ChCounter(tasks[T0], W)

\* The activation cycle of the run that holds the intent true from cycle 1.
ActivationCycle == IF Tol = 0 THEN 1 ELSE Tol

\* C3: a cycle entered while the task is inactive returns at once: plan,
\* signal and act are not called (the mock records a skipped call and logs
\* nothing) and sigCounter, isSignaled, actCounter, isActing are unchanged.
C3_InactiveCycleIsNoOp ==
  [][(mock'.op \in {"run", "skip"} /\ ~tasks[T0].active) =>
       /\ mock'.op = "skip"
       /\ tasks' = tasks
       /\ mock' = [mock EXCEPT !.op = "skip"]]_vars

C3_Witness ==
  /\ mock.op = "skip"
  /\ ~tasks[T0].active
  /\ tasks[T0].isSignaled
  /\ tasks[T0].actCounter > 0

\* C4: with the constructor's configuration, the gate open, tolerance N and
\* the intent true in every cycle from cycle 1, no callback of the channel
\* happens before cycle N (cycle 1 when N = 0) and the first cb(true) happens
\* in that cycle.
C4_FirstActivationAtTolerance ==
  (mock.held >= 1 /\ Allow) =>
     /\ mock.held < ActivationCycle =>
          mock.activations = 0 /\ mock.deactivations = 0 /\ mock.lastCalls = <<>>
     /\ mock.held = ActivationCycle =>
          mock.activations = 1 /\ mock.deactivations = 0 /\ mock.lastCalls = <<TRUE>>

C4_Witness ==
  /\ mock.held = 2 /\ Tol = 2 /\ Allow
  /\ mock.activations = 1 /\ mock.lastCalls = <<TRUE>>

\* C5: with the constructor's configuration, the gate open, tolerance N,
\* repeat R > 0 and the intent held true from cycle 1, cb(true) is called
\* exactly in the cycles a, a+R, a+2R, ... (a the activation cycle) and
\* cb(false) never.
C5_HeartbeatEveryRepeatCycles ==
  (mock.held >= 1 /\ Allow /\ Rep > 0) =>
     /\ mock.deactivations = 0
     /\ mock.lastCalls =
          IF mock.held >= ActivationCycle /\ (mock.held - ActivationCycle) % Rep = 0
            THEN <<TRUE>> ELSE <<>>

\* The same restricted to tolerance N >= 1, where it holds.
C5_HoldsForPositiveTolerance == Tol >= 1 => C5_HeartbeatEveryRepeatCycles

\* C6: with repeat 0, the constructor's configuration, the gate open and the
\* intent held true, cb(true) is called exactly once, at activation, however
\* many cycles follow; and in any cycle whose snapshot has repeat 0 a callback
\* is made only when the channel changes state (rising or falling edge).
C6_SingleShot ==
  /\ []((mock.held >= 1 /\ Allow /\ Rep = 0) =>
          /\ mock.deactivations = 0
          /\ mock.activations = (IF mock.held >= ActivationCycle THEN 1 ELSE 0))
  /\ [][(mock'.op = "run" /\ Rep = 0 /\ mock'.lastCalls # <<>>) =>
          ChOn(tasks'[T0], W) # IsOn]_vars

C6_Witness ==
  /\ mock.held = MaxCycles /\ Allow /\ Rep = 0
  /\ mock.activations = 1 /\ mock.lastCalls = <<>>

\* C7: whenever a cycle activates the channel, the last Tol intents (Tol the
\* tolerance snapshotted in that cycle), the current one included, were all
\* true.
C7_ActivationNeedsConsecutiveTrues ==
  [][(mock'.op = "run" /\ ~IsOn /\ ChOn(tasks'[T0], W)) =>
       /\ mock'.lastCalls = <<TRUE>>
       /\ mock'.streak >= Tol]_vars

C7_Witness ==
  /\ mock.op = "run" /\ mock.lastCalls = <<TRUE>> /\ mock.activations = 1
  /\ mock.held = -1 /\ mock.deactivations = 0 /\ mock.gateEverOpen
  /\ Tol = 2 /\ Counter = 2 /\ mock.streak = 2 /\ mock.sinceWd = 2

\* C8: a cycle that starts with the channel on and observes a false intent
\* or a closed gate calls cb(false) once, as its only callback, and ends with
\* the channel off and the counter 0, also when a heartbeat was due.
C8_WithdrawalWins ==
  [][(mock'.op = "run" /\ IsOn /\ (~mock'.lastWant \/ ~Allow)) =>
       /\ mock'.lastCalls = <<FALSE>>
       /\ ~ChOn(tasks'[T0], W)
       /\ ChCounter(tasks'[T0], W) = 0]_vars

\* the gate was closed on an active channel whose heartbeat was due
C8_Witness ==
  /\ mock.op = "run" /\ mock.lastCalls = <<FALSE>> /\ mock.lastWant
  /\ ~Allow /\ Tol = 1 /\ Rep = 1
  /\ mock.activations = 1 /\ mock.deactivations = 1 /\ mock.gateWd

\* C9: as long as every cycle snapshots the gate closed, no callback of the
\* channel is made and the channel stays off, however far the counter climbs.
C9_ClosedGateNeverActivates ==
  ~mock.gateEverOpen =>
     mock.activations = 0 /\ mock.deactivations = 0 /\ ~IsOn

C9_Witness ==
  /\ ~mock.gateEverOpen /\ mock.op = "run" /\ ~Allow
  /\ Counter = MaxCounter /\ Counter > Tol /\ ~IsOn

\* C10: after a withdrawal made with the gate closed, the next cb(true) comes
\* only in a cycle that snapshots the gate open and after at least Tol
\* consecutive true intents observed in the cycles after the withdrawal.
C10_FreshAccumulationAfterGateWithdrawal ==
  [][(mock'.op = "run" /\ mock.gateWd /\ mock'.lastCalls = <<TRUE>>) =>
       /\ Allow
       /\ mock'.sinceWd >= Tol]_vars

C10_Witness ==
  /\ mock.reactivated /\ Tol = 2 /\ mock.sinceWd = 2 /\ mock.lastCalls = <<TRUE>>

\* ------------------------------------------------------------------------
\* Properties of the scheduler (checked under Spec)
\* ------------------------------------------------------------------------
Instances == DOMAIN tasks

Occurrences(q, id) == Cardinality({i \in DOMAIN q : q[i] = id})

InTimerQueue(id) == Cardinality({i \in DOMAIN timerQueue : timerQueue[i].task = id})

Holders(id) == {w \in Workers : workers[w].task = id}

\* The workers inside task->run() of the instance
Running(id) == {w \in Holders(id) : workers[w].pc \in {"w_run", "w_exec"}}

\* The scheduling references to an instance: entries of the timer queue,
\* entries of the worker queue, the timer thread's local between its pop and
\* its push, and the workers' locals.
Refs(id) ==
  InTimerQueue(id) + Occurrences(workerQueue, id)
    + (IF timer.task = id THEN 1 ELSE 0) + Cardinality(Holders(id))

\* C1: whatever the interleaving of createTask/stopTask/updateTask with the
\* timer thread and the workers, a task instance has at most one scheduling
\* reference (timer queue, worker queue, a thread's local), and run() of an
\* instance is inside at most one worker.
C1_OneSchedulingReference ==
  \A id \in Instances : Refs(id) <= 1 /\ Cardinality(Running(id)) <= 1

\* C1 witness: an instance that has already completed a cycle and gone round
\* through the timer queue and the worker queue is inside run() again.
C1_Witness ==
  \E id \in Instances :
    /\ Running(id) # {}
    /\ tasks[id].sigCounter >= 1
    /\ Refs(id) = 1

\* C2: once stopTask has returned true for an instance, at most one more
\* cycle of it calls plan/signal/act, and that cycle had passed run()'s
\* active check before the return: none passes it afterwards.
C2_AtMostOneCycleAfterStop ==
  \A id \in Stopped : obs.lateCycles[id] <= 1 /\ ~obs.lateStart[id]

\* C2 witness: a stopped instance whose in-flight cycle has run to its end.
C2_Witness ==
  \E id \in Stopped :
    /\ obs.lateCycles[id] = 1
    /\ tasks[id].isSignaled
    /\ Holders(id) = {}

\* ------------------------------------------------------------------------
\* Properties of the public interface (checked under SpecApi)
\* ------------------------------------------------------------------------
Count(reg) == Cardinality(DOMAIN reg)

Queued(id) == InTimerQueue(id) + Occurrences(workerQueue, id)

\* C17: a createTask call on a registered name returns false; a createTask
\* call that returns false (registered name, or null from the factory)
\* leaves the tasks, the registry and both queues as they were, the
\* registered instance included; one that returns true has registered a
\* task that is not null.
C17_CreateTaskRejects ==
  [][api'.op = "createTask" =>
       /\ api'.name \in DOMAIN registry => ~api'.ok
       /\ ~api'.ok => UNCHANGED <<tasks, registry, timerQueue, workerQueue>>
       /\ api'.ok => /\ api'.val # NoTask
                     /\ api'.name \in DOMAIN registry'
                     /\ registry'[api'.name] = api'.val]_vars

\* C17 witness: createTask has just returned false on a name that is
\* registered, its instance still scheduled.
C17_Witness ==
  /\ api.op = "createTask" /\ ~api.ok
  /\ api.name \in DOMAIN registry
  /\ Queued(registry[api.name]) = 1

\* C18: stopTask, updateTask and getTask on a name that is not registered
\* return false, false and null, and leave the registry, both queues, the
\* threads and every task (configuration and active flag included) as they
\* were.
C18_MissingNameChangesNothing ==
  [][(api'.op \in {"stopTask", "updateTask", "getTask"}
        /\ api'.name \notin DOMAIN registry) =>
       /\ ~api'.ok
       /\ api'.val = NoTask
       /\ UNCHANGED <<tasks, registry, timerQueue, workerQueue, running,
                      timer, workers, mgr>>]_vars

\* C18 witness: getTask has just returned null for a name that is not
\* registered while another task is.
C18_Witness ==
  /\ api.op = "getTask" /\ ~api.ok
  /\ api.name \notin DOMAIN registry
  /\ registry # <<>>

\* C19: when stopTask(name) returns true, the instance it was registered to
\* is inactive, the name is registered no more (getTask(name) gives null),
\* and the count has gone down by exactly one.
C19_StopTaskUnregisters ==
  [][(api'.op = "stopTask" /\ api'.ok) =>
       /\ api'.name \in DOMAIN registry
       /\ ~tasks'[registry[api'.name]].active
       /\ api'.name \notin DOMAIN registry'
       /\ Count(registry') = Count(registry) - 1]_vars

\* C19 witness: stopTask has just returned true and the stopped instance
\* still has its entry in the timer queue or the worker queue.
C19_Witness ==
  /\ api.op = "stopTask" /\ api.ok
  /\ \E id \in Stopped : ~tasks[id].active /\ Queued(id) = 1

\* C20: createTask calls are serialised by registryMutex_, so concurrent
\* calls are calls in some order.  For each name the calls that returned true
\* (less the stopTask calls that returned true) are one when the name is
\* registered and none when it is not: of the calls on one name one
\* succeeds, and the count is the number of successful calls.
C20_OneCreatePerName ==
  /\ \A n \in Names : obs.net[n] = IF n \in DOMAIN registry THEN 1 ELSE 0
  /\ Count(registry) = Cardinality({n \in Names : obs.net[n] >= 1})

\* C20 witness: a createTask call has just failed on a name whose earlier
\* call succeeded, and a call with the other name has succeeded too.
C20_Witness ==
  /\ api.op = "createTask" /\ ~api.ok
  /\ DOMAIN registry = Names
  /\ \A n \in Names : obs.net[n] = 1

\* ------------------------------------------------------------------------
\* Properties of shutdown (checked under SpecShutdown)
\* ------------------------------------------------------------------------
\* A call of shutdown() by c begins in this step
Begins(c) ==
  /\ sd[c] \in {"idle", "returned"}
  /\ \/ sd'[c] = "notify_timer"
     \/ api' = Returned("shutdown", c, TRUE, NoTask)

ThreadsExited == TimerExited /\ WorkersExited

\* C12: shutdown() returns only when its joins complete.  Stated for finite
\* runs: no state is reached in which a caller waits in its joins, past both
\* notify_all calls, while a worker is blocked on workerCV_ with nobody left
\* to notify it (the timer thread has exited and no other call of shutdown
\* gets as far as notifying).
C12_NoWorkerStranded ==
  ~ \E c \in Callers, w \in DOMAIN workers :
      /\ sd[c] = "join"
      /\ TimerExited
      /\ workers[w].pc = "w_blocked"

\* C13: whenever a call of shutdown() has returned, the timer thread and
\* all the workers have exited.
C13_ReturnedMeansThreadsExited == SomeReturned => ThreadsExited

\* C14: a call of shutdown() that begins after a call has returned returns
\* in its first step, without waiting for any thread, and leaves the tasks,
\* the registry, both queues, running_ and the threads as they were.
C14_SecondShutdownIsNoOp ==
  [][\A c \in Callers :
       (SomeReturned /\ Begins(c)) =>
         /\ sd'[c] = "returned"
         /\ api' = Returned("shutdown", c, TRUE, NoTask)
         /\ UNCHANGED <<tasks, registry, timerQueue, workerQueue, running,
                        timer, workers, mgr>>]_vars

\* C14 witness: both callers have returned, the threads have exited, and the
\* task created before the shutdown is as the first call left it.
C14_Witness ==
  /\ api.op = "shutdown"
  /\ \A c \in Callers : sd[c] = "returned"
  /\ ThreadsExited
  /\ registry # <<>>

\* C15: after a shutdown() that has joined the threads, createTask,
\* stopTask and updateTask return false, getTask returns null, and the
\* registry and the timer queue stay as they are.
C15_CallsFailAfterShutdown ==
  [][(SomeReturned /\ ThreadsExited
        /\ api'.op \in {"createTask", "stopTask", "updateTask", "getTask"}) =>
       /\ ~api'.ok
       /\ UNCHANGED <<registry, timerQueue>>]_vars

\* C16: at the return of shutdown() the registry is empty.
C16_RegistryClearedByShutdown == api.op = "shutdown" => Count(registry) = 0

\* ------------------------------------------------------------------------
\* Properties of throwing callbacks (checked under SpecThrow)
\* ------------------------------------------------------------------------
\* C11: an exception thrown by plan(), signal() or act() is caught at the
\* boundary of the cycle: no worker is ever left terminated by it, and the
\* worker goes on to the check that reschedules the task.
C11_ThrowIsContained == ~Terminated

\* ------------------------------------------------------------------------
\* Properties of the registry and the active flags (checked under
\* SpecCaller, and without the caller's setActive under SpecApi)
\* ------------------------------------------------------------------------
Registered == {registry[n] : n \in DOMAIN registry}

ActiveInstances == {id \in Instances : tasks[id].active}

\* C21: what getTaskCount() returns is the number of registry entries and
\* the number of active task instances, and in every state the registered
\* instances are exactly the active ones.
C21_CountIsRegisteredIsActive ==
  /\ api.op = "getTaskCount" =>
       /\ api.val = Count(registry)
       /\ api.val = Cardinality(ActiveInstances)
  /\ Registered = ActiveInstances

\* ------------------------------------------------------------------------
\* Properties of configuration updates (checked under SpecUpdate)
\* ------------------------------------------------------------------------
\* The workers that hold the snapshot of a cycle under way
Cycling == {w \in DOMAIN workers : workers[w].pc = "w_exec"}

\* An updateTask call has assigned some and not all fields of config_
MidWrite(c) == upd[c].pc = "u_write" /\ upd[c].done \in 1..(Len(ConfigFields) - 1)

\* The whole configurations given to a task: the one its factory made it
\* with and the arguments of the updateTask calls that reached it.
WholeValues(id) == {UpdateInitial} \cup obs.written[id]

\* C22: whatever the interleaving of updateTask calls on a name with the
\* task's cycles, the configuration snapshot a cycle uses is, field for
\* field, the configuration the task was made with or the whole argument of
\* one updateTask call, never a mix of two writes.
C22_SnapshotIsOneWholeValue ==
  \A w \in Cycling : workers[w].cfg \in WholeValues(workers[w].task)

\* A cycle under way on the value of an update while the next update has
\* config_ half written, a mix that no call has given.
C22_Witness ==
  \E w \in Cycling, c \in Callers :
    /\ workers[w].cfg \in UpdateConfigs
    /\ MidWrite(c)
    /\ registry[upd[c].name] = workers[w].task
    /\ tasks[workers[w].task].config \notin WholeValues(workers[w].task)

\* The step in which worker w takes the snapshot of a cycle
Snapshots(w) == workers[w].pc = "w_run" /\ workers'[w].pc = "w_exec"

\* The step in which worker w runs plan() and the two channels
Executes(w) == workers[w].pc = "w_exec" /\ workers'[w].pc = "w_after"

\* The outcome of one channel under a configuration's fields
ChannelOutcome(cfg, ch, intent, t) ==
  Channel(ChTol(cfg, ch), ChRep(cfg, ch), ChAllow(cfg, ch), ChWant(intent, ch),
          ChCounter(t, ch), ChOn(t, ch))

\* C23: the snapshot a cycle takes is the configuration of the last
\* updateTask call that returned before it (the constructor's configuration
\* if there is none), so an update that lands during a cycle is in the
\* snapshot of the next one; and the rest of a cycle works on its snapshot
\* in both channels, whatever has been written to the task since.
C23_SnapshotFollowsReturnedUpdates ==
  [][\A w \in DOMAIN workers :
       /\ Snapshots(w) => workers'[w].cfg = obs.landed[workers[w].task]
       /\ Executes(w) =>
            \E intent \in SensorPlans :
              \A ch \in Channels :
                LET id == workers[w].task
                    r == ChannelOutcome(workers[w].cfg, ch, intent, tasks[id])
                IN  /\ ChCounter(tasks'[id], ch) = r.counter
                    /\ ChOn(tasks'[id], ch) = r.isOn]_vars

\* A cycle whose snapshot is the value of an update that had returned, about
\* to run its channels after another update has returned with different
\* tolerances.
C23_Witness ==
  \E w \in Cycling :
    LET id == workers[w].task
    IN  /\ workers[w].cfg \in UpdateConfigs
        /\ \A c \in Callers : upd[c].pc = "idle"
        /\ tasks[id].config = obs.landed[id]
        /\ tasks[id].config.actTolerance # workers[w].cfg.actTolerance
        /\ tasks[id].config.sigTolerance # workers[w].cfg.sigTolerance

\* ------------------------------------------------------------------------
\* Properties of the interval (checked under Spec)
\* ------------------------------------------------------------------------
\* The step in which worker w reschedules its task after a cycle
Reschedules(w) == workers[w].pc = "w_resched" /\ workers'[w].pc = "w_wait"

\* The time left of the timer queue's entries for an instance
DuesOf(q, id) == {q[i].due : i \in {j \in DOMAIN q : q[j].task = id}}

\* C24: an updateTask call leaves the timer queue as it is, the deadline of
\* the task's entry included; the entry pushed when the task is next
\* rescheduled after a cycle has the deadline of that moment plus the
\* interval of the last update.
C24_NewIntervalAtNextReschedule ==
  [][/\ api'.op = "updateTask" => UNCHANGED <<timerQueue, workerQueue>>
     /\ \A w \in DOMAIN workers :
          Reschedules(w) =>
            DuesOf(timerQueue', workers[w].task)
              = {obs.landed[workers[w].task].intervalMs}]_vars

\* updateTask has just returned with the shortest interval while the entry
\* of the task still has more time left than that: the deadline it got
\* under the longer interval.
C24_Witness ==
  /\ api.op = "updateTask" /\ api.ok
  /\ \E id \in Registered :
       /\ tasks[id].config.intervalMs = 1
       /\ \E d \in DuesOf(timerQueue, id) : d > 1

\* ------------------------------------------------------------------------
\* Properties of lazy deletion (checked under SpecLazy)
\* ------------------------------------------------------------------------
\* The threads' locals that hold an instance
HeldBy(id) == {w \in DOMAIN workers : workers[w].task = id}

\* The scheduling references to an instance, whatever the number of workers
References(id) ==
  Queued(id) + (IF timer.task = id THEN 1 ELSE 0) + Cardinality(HeldBy(id))

\* C25: createTask on a name that stopTask has freed registers the new,
\* active instance at once and touches no other instance or reference; the
\* instance stopped before is dropped where a thread comes across it (the
\* timer's check, the worker's check, run()'s own check, the check before
\* rescheduling) without entering a cycle and without changing the tasks,
\* the registry or the queues; the registered instance keeps its one
\* scheduling reference throughout.
C25_RecreateNextToStaleReference ==
  [][/\ (api'.op = "createTask" /\ api'.ok) =>
          /\ api'.name \notin DOMAIN registry
          /\ registry'[api'.name] = api'.val
          /\ api'.val \notin DOMAIN tasks
          /\ tasks'[api'.val].active
          /\ \A id \in Instances :
               tasks'[id] = tasks[id] /\ References(id)' = References(id)
     /\ (timer.pc = "t_check" /\ timer.task \in Stopped /\ timer' # timer) =>
          /\ timer'.task = NoTask
          /\ UNCHANGED <<tasks, registry, timerQueue, workerQueue>>
     /\ \A w \in DOMAIN workers :
          /\ (workers[w].task \in Stopped /\ workers'[w].pc # workers[w].pc
                /\ workers[w].pc \in {"w_check", "w_run", "w_after"}) =>
               /\ workers'[w].pc = IF workers[w].pc = "w_run" THEN "w_after"
                                   ELSE "w_wait"
               /\ workers[w].pc # "w_run" => workers'[w].task = NoTask
               /\ UNCHANGED <<tasks, registry, timerQueue, workerQueue>>
          /\ (workers[w].pc # "w_exec" /\ workers'[w].pc = "w_exec") =>
               workers[w].task \notin Stopped
     /\ \A id \in Registered' : References(id)' = 1]_vars

\* The new instance of a name is inside a cycle while the instance stopped
\* under that name still has its entry in a queue.
C25_Witness ==
  \E w \in Cycling, old \in Stopped :
    /\ workers[w].task \in Registered
    /\ Queued(old) > 0

\* ------------------------------------------------------------------------
\* Properties of tasks side by side (checked under SpecPair)
\* ------------------------------------------------------------------------
\* The step is the return of a call of op on the name
CallOn(op, n) == api'.op = op /\ api'.name = n

\* C26: a registered task stays registered and active through every step
\* that is not a stopTask on its own name, keeps its configuration through
\* every step that is not an updateTask on its own name, and keeps its one
\* scheduling reference: calls on other names and the cycles of any task
\* leave them alone.
C26_OnlyItsOwnNameStopsATask ==
  [][\A n \in DOMAIN registry :
       LET id == registry[n]
       IN  /\ tasks[id].active
           /\ ~CallOn("stopTask", n) =>
                /\ n \in DOMAIN registry'
                /\ registry'[n] = id
                /\ tasks'[id].active
                /\ References(id)' = 1
           /\ ~CallOn("updateTask", n) =>
                tasks'[id].config = tasks[id].config]_vars

\* A call on the other name has just returned true next to a registered
\* task that has been through a cycle and holds its signal.
C26_Witness ==
  /\ api.op \in {"stopTask", "updateTask"} /\ api.ok
  /\ \E n \in DOMAIN registry :
       /\ n # api.name
       /\ tasks[registry[n]].isSignaled
       /\ tasks[registry[n]].config.intervalMs = 1

\* ------------------------------------------------------------------------
\* Progress of the tasks (checked under SpecLoopsFair)
\* ------------------------------------------------------------------------
\* The task objects there can be: one for each name
PairInstances == 1..Cardinality(Names)

IsRegistered(id) == id \in Registered

\* A worker is inside a cycle of the instance
InCycle(id) == \E w \in Cycling : workers[w].task = id

\* C27: with the threads running and callbacks that return, a task that
\* stays registered is inside a cycle again and again, and is back in the
\* timer queue again and again, whatever the other task does.
C27_NoStarvation ==
  \A id \in PairInstances :
    /\ []<>(~IsRegistered(id) \/ InCycle(id))
    /\ []<>(~IsRegistered(id) \/ InTimerQueue(id) = 1)

\* One task is inside a cycle on the only worker while the other, which
\* has been through a cycle before, is overdue in the timer queue.
C27_Witness ==
  \E id \in Registered, other \in Registered :
    /\ id # other
    /\ InCycle(id)
    /\ tasks[other].isSignaled
    /\ \E i \in DOMAIN timerQueue :
         timerQueue[i].task = other /\ timerQueue[i].due = 0

\* C28: once stopTask has returned for an instance, its references in the
\* timer queue, the worker queue and the threads' locals are dropped in
\* time: the timer drops the entry it pops for the instance, the instance
\* comes to have no reference inside the scheduler, and none comes back.
\* (An instance stays stopped and, by the second conjunct, stays without a
\* reference, so that "again and again every stopped instance is without a
\* reference" says of each instance that being stopped leads to it.)
C28_StaleReferencesDrain ==
  /\ [][\A id \in Stopped :
          /\ (timer.pc = "t_check" /\ timer.task = id /\ timer'.pc # "t_check")
               => References(id)' = 0
          /\ References(id) = 0 => References(id)' = 0]_vars
  /\ []<>(\A id \in Stopped : References(id) = 0)

\* A stopped instance that has been through cycles, holding its signal, is
\* left without a reference in the scheduler.
C28_Witness ==
  \E id \in Stopped :
    /\ References(id) = 0
    /\ tasks[id].isSignaled
    /\ tasks[id].sigCounter > 0

\* ------------------------------------------------------------------------
\* The channels do not interfere (checked under SpecTwin)
\* ------------------------------------------------------------------------
\* The two runs differ on the channel they do not agree on.
TwinsDiffer ==
  LET k == OtherChannel(mock.watch)
  IN  \/ ChOn(tasks[1], k) # ChOn(tasks[2], k)
      \/ ChCounter(tasks[1], k) # ChCounter(tasks[2], k)
      \/ ChAllow(tasks[1].config, k) # ChAllow(tasks[2].config, k)
      \/ ChTol(tasks[1].config, k) # ChTol(tasks[2].config, k)
      \/ ChRep(tasks[1].config, k) # ChRep(tasks[2].config, k)

\* C29: two runs of a task that agree on the intents and the configuration
\* fields of one channel, and differ in the intents or the configuration
\* fields of the other, make the same callback calls on the agreed channel
\* in every cycle and keep the same counter and the same state on it; this
\* holds for the signal channel and for the action channel.
C29_ChannelsDoNotInterfere ==
  LET ch == mock.watch
  IN  /\ mock.calls[1] = mock.calls[2]
      /\ ChCounter(tasks[1], ch) = ChCounter(tasks[2], ch)
      /\ ChOn(tasks[1], ch) = ChOn(tasks[2], ch)

\* The runs agree on the signal channel, which calls signal(true) in a cycle
\* after which the action channel is on in
\* one run and off in the other, its gate open in one and closed in the other.
C29_Witness ==
  /\ mock.watch = "sig"
  /\ mock.calls[1] = <<TRUE>> /\ tasks[1].sigCounter = tasks[1].config.sigTolerance
  /\ tasks[1].config.sigTolerance > 0
  /\ tasks[1].isActing # tasks[2].isActing
  /\ tasks[1].config.allowAction # tasks[2].config.allowAction
  /\ TwinsDiffer

\* ------------------------------------------------------------------------
\* ConfigManager::syncTasks (checked under SpecMgr)
\* ------------------------------------------------------------------------
MgrCalls(name) == {c \in mgr.calls : c[2] = name}

\* C30: after syncTasks(newConfigs) the registered names are the names of
\* newConfigs: a name that was not registered has a new task with its
\* configuration (createTask returned true), a name in both with a changed
\* entry keeps its task object, which now has the new configuration
\* (updateTask returned true), a registered name absent from newConfigs has
\* its task stopped (stopTask returned true), and for a name whose entry is
\* unchanged no call is made on the scheduler and its task is left as it is.
C30_SyncMakesRegistryTheNewConfigs ==
  [][api'.op = "syncTasks" =>
       LET old == ConfigMap(mgr.currentConfigs)
           new == ConfigMap(mgr'.currentConfigs)
       IN  /\ DOMAIN registry' = DOMAIN new
           /\ \A n \in DOMAIN new \ DOMAIN registry :
                /\ MgrCalls(n)' = {<<"createTask", n, TRUE>>}
                /\ registry'[n] \notin DOMAIN tasks
                /\ tasks'[registry'[n]] = NewTask(new[n].config)
           /\ \A n \in DOMAIN new \cap DOMAIN registry :
                IF old[n] # new[n]
                  THEN /\ MgrCalls(n)' = {<<"updateTask", n, TRUE>>}
                       /\ registry'[n] = registry[n]
                       /\ tasks'[registry[n]] =
                            [tasks[registry[n]] EXCEPT !.config = new[n].config]
                  ELSE /\ MgrCalls(n)' = {}
                       /\ registry'[n] = registry[n]
                       /\ tasks'[registry[n]] = tasks[registry[n]]
           /\ \A n \in DOMAIN registry \ DOMAIN new :
                /\ MgrCalls(n)' = {<<"stopTask", n, TRUE>>}
                /\ ~tasks'[registry[n]].active]_vars

\* ConfigManagerTest.MixedOperations with two names: both were registered,
\* and one sync has updated the one and stopped the other.
C30_Witness ==
  /\ api.op = "syncTasks"
  /\ \E n, m \in Names :
       /\ <<"updateTask", n, TRUE>> \in mgr.calls
       /\ <<"stopTask", m, TRUE>> \in mgr.calls
  /\ Stopped # {}

\* ------------------------------------------------------------------------
\* Counter and state of a channel at the end of a cycle (checked under SpecSM)
\* ------------------------------------------------------------------------
\* C37: at the end of every cycle that observed a false intent, and at the
\* end of every cycle that withdrew the channel (called cb(false)), the
\* channel's counter is 0, whatever intents and configuration updates came
\* before; the watched channel is the signal or the action channel.
C37_CounterZeroAfterFalseOrWithdrawal ==
  (mock.op = "run" /\ (~mock.lastWant \/ mock.lastCalls = <<FALSE>>)) =>
     Counter = 0

\* a withdrawal by a closed gate in a cycle that observed a true intent,
\* after the counter had climbed past the tolerance
C37_Witness ==
  /\ mock.op = "run" /\ mock.lastWant /\ mock.lastCalls = <<FALSE>>
  /\ mock.streak = MaxTol /\ ~Allow /\ Counter = 0 /\ ~IsOn

\* C38: the channel is on at the end of a cycle exactly when a cb(true) call
\* has happened with no cb(false) call since.  Step by step: the channel
\* starts off; its state changes only in a cycle, which then makes the one
\* call cb(new state); a cycle calling cb(true) ends with the channel on; and
\* a cycle calling cb(false) started with the channel on and ends with it
\* off, so that cb(false) is never called on a channel that is off, nor twice
\* without a cb(true) in between.
C38_StateFollowsCallbacks ==
  /\ ~IsOn
  /\ [][/\ (ChOn(tasks'[T0], W) # IsOn) =>
             (mock'.op = "run" /\ mock'.lastCalls = <<ChOn(tasks'[T0], W)>>)
        /\ (mock'.op = "run" /\ mock'.lastCalls = <<TRUE>>) =>
             ChOn(tasks'[T0], W)
        /\ (mock'.op = "run" /\ mock'.lastCalls = <<FALSE>>) =>
             (IsOn /\ ~ChOn(tasks'[T0], W))]_vars

\* the channel on again after a withdrawal, in a cycle that made no call
C38_Witness ==
  /\ mock.op = "run" /\ IsOn /\ mock.lastCalls = <<>>
  /\ mock.activations = 2 /\ mock.deactivations = 1

\* C39: in every cycle that activates the channel (cb(true) called, the
\* state going from off to on) the counter equals the snapshotted tolerance
\* when the cycle ends.
C39_CounterAtToleranceOnActivation ==
  [][(mock'.op = "run" /\ ~IsOn /\ ChOn(tasks'[T0], W)) =>
       ChCounter(tasks'[T0], W) = Tol]_vars

\* The same for the run that holds the intent true from cycle 1 under the
\* constructor's configuration with a tolerance of at least 1 and the gate
\* open, where it holds.
C39_HoldsFromConstructionForPositiveTolerance ==
  [][(mock'.op = "run" /\ ~IsOn /\ ChOn(tasks'[T0], W)
        /\ mock'.held >= 1 /\ Tol >= 1) =>
       ChCounter(tasks'[T0], W) = Tol]_vars

\* C40: as long as the intent is held true from cycle 1 under the
\* constructor's configuration, the counter never exceeds tolerance + repeat.
C40_CounterBoundedBySnapBack ==
  mock.held >= 1 => Counter <= Tol + Rep

\* The same with the gate open and a repeat of at least 1, where the
\* snap-back applies.
C40_HoldsWithHeartbeat ==
  (mock.held >= 1 /\ Allow /\ Rep >= 1) => Counter <= Tol + Rep


\* ------------------------------------------------------------------------
\* The timer thread asleep in wait_for and the pushes that come meanwhile
\* (checked under SpecLoops)
\* ------------------------------------------------------------------------
\* C31: an entry pushed with an earlier deadline than the one the timer
\* thread sleeps towards wakes the thread, which reads the minimum again: a
\* timer thread that is asleep (its `entry` referring to the vector's
\* storage) sleeps towards the deadline of the top entry.
C31_SleepsTowardsTheMinimum ==
  (timer.pc = "t_sleeping" /\ ~timer.stale) =>
    SleepLeft(timer, timerQueue) = Top(timerQueue).due

\* The later deadline is the one that ends the sleep: the entry pushed
\* meanwhile is due and the thread has time left to sleep.
C31_NewEntryDueWhileAsleep ==
  ~(/\ timer.pc = "t_sleeping" /\ ~timer.stale
    /\ Top(timerQueue).due = 0
    /\ SleepLeft(timer, timerQueue) > 0)


\* ------------------------------------------------------------------------
\* What the timer thread removes from the timer queue (checked under
\* SpecLoops)
\* ------------------------------------------------------------------------
\* The entries of q by deadline, earliest first.
Ascending(q) == \A i, j \in DOMAIN q : i < j => q[i].due <= q[j].due

\* C32: the timer queue hands out its entries earliest deadline first, and
\* the only removal is the timer thread taking the entry with the smallest
\* deadline once that deadline has come: its task is the one the thread goes
\* on to dispatch, and every entry left behind has its deadline no earlier.
C32_RemovesOnlyTheDueMinimum ==
  [][/\ Ascending(timerQueue')
     /\ Len(timerQueue') < Len(timerQueue) =>
          /\ Top(timerQueue).due = 0
          /\ \A i \in DOMAIN timerQueue : Top(timerQueue).due <= timerQueue[i].due
          /\ timerQueue' = Tail(timerQueue)
          /\ timer.pc \in {"t_lock", "t_woken"}
          /\ timer'.pc = "t_check" /\ timer'.task = Top(timerQueue).task
     /\ Len(workerQueue') > Len(workerQueue) =>
          /\ timer.pc = "t_check"
          /\ workerQueue' = Append(workerQueue, timer.task)]_vars

\* The earlier of two entries has been taken, the later one is not yet due.
C32_Witness ==
  /\ timer.pc = "t_check"
  /\ timerQueue # <<>> /\ Top(timerQueue).due > 0
  /\ Top(timerQueue).task # timer.task


\* ------------------------------------------------------------------------
\* The cycles of one task object, one after the other (checked under Spec)
\* ------------------------------------------------------------------------
\* A worker is in a cycle of task object id: between its call of
\* task->run() and its return from rescheduleTask.
CycleUnderWay(id) ==
  \E w \in DOMAIN workers :
    /\ workers[w].task = id
    /\ workers[w].pc \in {"w_run", "w_exec", "w_after", "w_resched"}

\* C33: a worker calls run() on a task object only when no cycle of that
\* object is under way and the deadline computed by the last scheduleTask
\* for it (the time of that call + the intervalMs read by it) has come.
C33_NextCycleAfterRescheduledDeadline ==
  [][\A w \in DOMAIN workers :
       (workers[w].pc # "w_run" /\ workers'[w].pc = "w_run") =>
         /\ ~CycleUnderWay(workers'[w].task)
         /\ obs.wait[workers'[w].task] = 0]_vars

\* A second cycle of a task object has been started: the object was
\* rescheduled with interval MaxInterval by its first cycle.
C33_Witness ==
  \E w \in DOMAIN workers :
    /\ workers[w].pc = "w_run"
    /\ tasks[workers[w].task].sigCounter >= 1
    /\ tasks[workers[w].task].config.intervalMs = MaxInterval
    /\ obs.wait[workers[w].task] = 0


\* ------------------------------------------------------------------------
\* Insertions into the two queues and the active flag (checked under Spec)
\* ------------------------------------------------------------------------
\* The number of entries of the timer queue q that refer to task object id
TimerEntries(q, id) == Cardinality({i \in DOMAIN q : q[i].task = id})

\* The number of places of the ready queue q taken by task object id
ReadyEntries(q, id) == Cardinality({i \in DOMAIN q : q[i] = id})

\* C34: a task object is put into the timer queue or into the ready queue
\* only at a moment when its active flag is true.
C34_NoInsertionWhileInactive ==
  [][\A id \in DOMAIN tasks :
       (\/ TimerEntries(timerQueue', id) > TimerEntries(timerQueue, id)
        \/ ReadyEntries(workerQueue', id) > ReadyEntries(workerQueue, id))
         => tasks[id].active]_vars


\* ------------------------------------------------------------------------
\* The mutexes alone: every thread reduced to the lock and unlock
\* operations of its code, in the code's order, with a thread that finds a
\* mutex locked waiting for it.  One task, whose configMutex_ is "config".
\* ------------------------------------------------------------------------
Lock(m) == [op |-> "lock", m |-> m]
Unlock(m) == [op |-> "unlock", m |-> m]

\* A call of code the user has supplied: the factory given to createTask,
\* or plan(), signal() and act() of the task ("callbacks").
Call(f) == [op |-> "call", m |-> f]

\* createTask: lock_guard on registryMutex_ for the whole call; on a new
\* name factory() inside it, and unless that returns null scheduleTask(task),
\* which calls getInterval() (configMutex_) and then pushes under
\* timerMutex_.
createTaskLocks ==
  {<<Lock("registry"), Unlock("registry")>>,
   <<Lock("registry"), Call("factory"), Unlock("registry")>>,
   <<Lock("registry"), Call("factory"), Lock("config"), Unlock("config"),
     Lock("timer"), Unlock("timer"), Unlock("registry")>>}

\* stopTask, getTask, getTaskCount: lock_guard on registryMutex_
registryOnlyLocks == {<<Lock("registry"), Unlock("registry")>>}

\* updateTask: lock_guard on registryMutex_; on a known name updateConfig()
\* inside it, under configMutex_.
updateTaskLocks ==
  {<<Lock("registry"), Unlock("registry")>>,
   <<Lock("registry"), Lock("config"), Unlock("config"), Unlock("registry")>>}

\* A pass of the timer thread that holds workerMutex_ inside timerMutex_.
timerThreadLocksNested ==
  {<<Lock("timer"), Lock("worker"), Unlock("worker"), Unlock("timer")>>}

\* One pass of timerThreadFunc's loop: unique_lock on timerMutex_, maybe
\* timerCV_.wait (which unlocks, blocks and locks again); then the pop with
\* lock.unlock() before the lock_guard on workerMutex_, or the pop of an
\* inactive task, or the break, or wait_for (unlock, lock again) and the
\* end of the scope.
timerThreadLocks ==
  {first \o rest :
     first \in {<<Lock("timer")>>,
                <<Lock("timer"), Unlock("timer"), Lock("timer")>>},
     rest \in {<<Unlock("timer"), Lock("worker"), Unlock("worker")>>,
               <<Unlock("timer")>>,
               <<Unlock("timer"), Lock("timer"), Unlock("timer")>>}}

\* One pass of workerThreadFunc's loop: unique_lock on workerMutex_, maybe
\* blocked in workerCV_.wait, released at the end of the inner scope; then
\* nothing (no task, an inactive task, the break), or run() with its
\* snapshot under configMutex_ and then plan() and the channels, or run()
\* and rescheduleTask (getInterval() under configMutex_, the push under
\* timerMutex_).
workerThreadLocks ==
  {first \o rest :
     first \in {<<Lock("worker"), Unlock("worker")>>,
                <<Lock("worker"), Unlock("worker"), Lock("worker"), Unlock("worker")>>},
     rest \in {<<>>,
               <<Lock("config"), Unlock("config"), Call("callbacks")>>,
               <<Lock("config"), Unlock("config"), Call("callbacks"),
                 Lock("config"), Unlock("config"),
                 Lock("timer"), Unlock("timer")>>}}

\* What a thread can set out to do
LockPrograms(th) ==
  IF th = "timer" THEN timerThreadLocks
  ELSE IF th = "worker" THEN workerThreadLocks
  ELSE createTaskLocks \cup registryOnlyLocks \cup updateTaskLocks

\* The mutexes a thread has locked
Held(lk, th) == {m \in Mutexes : lk.owner[m] = th}

\* A thread enters a call or a pass of its loop
LockStart(th, prog) ==
  /\ locks.todo[th] = <<>>
  /\ prog # <<>>
  /\ locks' = [locks EXCEPT !.todo[th] = prog]
  /\ api' = NoCall
  /\ UNCHANGED <<tasks, registry, timerQueue, workerQueue, running, timer,
                 workers, mock, obs, sd, upd, mgr>>

\* std::mutex::lock(): returns once the mutex is free
LockAcquire(th) ==
  /\ locks.todo[th] # <<>>
  /\ Head(locks.todo[th]).op = "lock"
  /\ locks.owner[Head(locks.todo[th]).m] = NoThread
  /\ locks' = [locks EXCEPT !.owner[Head(locks.todo[th]).m] = th,
                            !.todo[th] = Tail(@)]
  /\ api' = NoCall
  /\ UNCHANGED <<tasks, registry, timerQueue, workerQueue, running, timer,
                 workers, mock, obs, sd, upd, mgr>>

\* std::mutex::unlock()
LockRelease(th) ==
  /\ locks.todo[th] # <<>>
  /\ Head(locks.todo[th]).op = "unlock"
  /\ locks' = [locks EXCEPT !.owner[Head(locks.todo[th]).m] = NoThread,
                            !.todo[th] = Tail(@)]
  /\ api' = NoCall
  /\ UNCHANGED <<tasks, registry, timerQueue, workerQueue, running, timer,
                 workers, mock, obs, sd, upd, mgr>>

\* The user's code running and returning
UserCode(th) ==
  /\ locks.todo[th] # <<>>
  /\ Head(locks.todo[th]).op = "call"
  /\ locks' = [locks EXCEPT !.todo[th] = Tail(@)]
  /\ api' = NoCall
  /\ UNCHANGED <<tasks, registry, timerQueue, workerQueue, running, timer,
                 workers, mock, obs, sd, upd, mgr>>

InitLocks == Construct(LoopWorkers)

NextLocks ==
  \/ \E th \in LockThreads : \E prog \in LockPrograms(th) : LockStart(th, prog)
  \/ \E th \in LockThreads : LockAcquire(th)
  \/ \E th \in LockThreads : LockRelease(th)
  \/ \E th \in LockThreads : UserCode(th)

SpecLocks == InitLocks /\ [][NextLocks]_vars


\* ------------------------------------------------------------------------
\* The order of the locks (checked under SpecLocks)
\* ------------------------------------------------------------------------
\* The thread is in lock() on a mutex that is locked
WaitsFor(lk, th, owner) ==
  /\ lk.todo[th] # <<>>
  /\ Head(lk.todo[th]).op = "lock"
  /\ lk.owner[Head(lk.todo[th]).m] = owner

\* A set of threads each of which waits for a mutex that one of them holds
Deadlocked(lk) ==
  \E S \in SUBSET LockThreads :
    /\ S # {}
    /\ \A th \in S : \E owner \in S : WaitsFor(lk, th, owner)

\* C35: a thread locks a queue mutex only while it holds no queue mutex,
\* the registry mutex only while it holds no queue mutex and no config
\* mutex, and no mutex at all while it holds a config mutex; and no set of
\* threads is ever waiting for one another's mutexes.
C35_LockOrderAndNoDeadlock ==
  [][/\ \A th \in LockThreads, m \in Mutexes :
          (locks.owner[m] # th /\ locks'.owner[m] = th) =>
            /\ m \in {"timer", "worker"} =>
                 Held(locks, th) \cap {"timer", "worker"} = {}
            /\ m = "registry" =>
                 Held(locks, th) \cap {"timer", "worker", "config"} = {}
            /\ "config" \notin Held(locks, th)
     /\ ~Deadlocked(locks')]_vars

\* A caller inside createTask holds the registry mutex and the timer
\* mutex; the timer thread and the worker are both in lock() on the timer
\* mutex, and the other caller in lock() on the registry mutex.
C35_Witness ==
  /\ Held(locks, "caller1") = {"registry", "timer"}
  /\ WaitsFor(locks, "timer", "caller1")
  /\ WaitsFor(locks, "worker", "caller1")
  /\ WaitsFor(locks, "caller2", "caller1")


\* ------------------------------------------------------------------------
\* The user's code and the locks (checked under SpecLocks)
\* ------------------------------------------------------------------------
\* The thread is in a call of the user's code f
Runs(lk, th, f) ==
  lk.todo[th] # <<>> /\ Head(lk.todo[th]) = Call(f)

\* C36: whenever a thread is in code the user has supplied (the task
\* factory, plan, signal, act), it holds none of the scheduler's mutexes.
C36_NoUserCodeUnderALock ==
  \A th \in LockThreads, f \in {"factory", "callbacks"} :
    Runs(locks, th, f) => Held(locks, th) = {}

\* The part about plan, signal and act: no mutex is held while they run.
C36_CallbacksRunUnlocked ==
  \A th \in LockThreads : Runs(locks, th, "callbacks") => Held(locks, th) = {}
====
